---- MODULE Spec2Model ----
(***************************************************************************)
(* Model of the multi-mode Telegram assistant (src/New_Main.py).          *)
(*                                                                         *)
(* The components modelled, each with its own specification:               *)
(*   Spec     the mode state machine: the handlers registered in main()    *)
(*            and the way python-telegram-bot's ConversationHandler and    *)
(*            Application route one update to at most one of them;         *)
(*   SpecTok  the token usage counter: increment_token_usage and           *)
(*            tokens_command as cooperative tasks that can be suspended    *)
(*            at each await; SpecTokSeq is the same code run one call at   *)
(*            a time;                                                      *)
(*   SpecSched    daily_prompt_scheduler: the hourly scan of the users'    *)
(*            preferences, one row per step;                               *)
(*   SpecJournal  handle_journal_logic on table journal_entries, one       *)
(*            pipeline run per step, for every outcome of its database,    *)
(*            model, Telegram and rendering calls that the code handles.   *)
(*   SpecTemp the temporary files of get_text_from_input calls that run    *)
(*            at the same time, suspended at each await;                   *)
(*   SpecText the text functions of the journal pipeline (label            *)
(*            sanitization, topic nodes, parsing of the categorization     *)
(*            response, extraction of the diagram description), each       *)
(*            applied once to a text drawn from a bounded set;             *)
(*   SpecUsers    db_utils.add_user on a row of table users;               *)
(*   SpecCalls    one model call and its token accounting;                 *)
(*   SpecHistory  the historical context of the analysis prompt;           *)
(*   SpecChunks   the chunked display of a transcript or OCR text;         *)
(*   SpecAnswers  utils.reverse_alphabet on a chat answer;                 *)
(*   SpecPrefs    the scheduler beside the /enableprompts and              *)
(*            /disableprompts commands.                                    *)
(* Failures of Telegram calls are modelled where the code has a handler    *)
(* for them (try / except around the call) and not elsewhere.              *)
(* A handler of Spec is one atomic step (the Application processes updates *)
(* one at a time); what it did is recorded, in order, in last.out.  Model  *)
(* calls appear there as "gemini" events; their token accounting is the    *)
(* SpecTok component.                                                      *)
(***************************************************************************)
EXTENDS Integers, Sequences, FiniteSets, TLC

VARIABLES
    conversations,   \* ConversationHandler._conversations: (chat, user) -> state
    user_data,       \* context.user_data[user]['current_mode']
    last,            \* the update processed last and what the program did with it
    token_file,      \* contents of token_usage.json
    token_data_cache,\* token_data_cache["session"]
    token_file_lock, \* the tasks holding token_file_lock: none or one
    today,           \* the current day, as datetime.now().strftime("%Y-%m-%d")
    task,            \* per task: the call in progress and its position
    hist,            \* bookkeeping of the calls made since initialize_token_data
    preferences,     \* users.preferences: the stored text of each user
    sched,           \* daily_prompt_scheduler: the clock and the scan in progress
    prompts,         \* the prompts sent and what the scheduler did last
    journal_entries, \* the rows of table journal_entries, oldest first
    run,             \* the journal pipeline run made last
    temp_files,      \* the paths under TEMP_DIR that hold a file
    norm_task,       \* per get_text_from_input call in progress: its position
    applied          \* the text function applied last, its input and result

convVars == <<conversations, user_data, last>>
tokVars == <<token_file, token_data_cache, token_file_lock, today, task, hist>>
schedVars == <<preferences, sched, prompts>>
journalVars == <<journal_entries, run>>
tempVars == <<temp_files, norm_task>>
vars == <<conversations, user_data, last, token_file, token_data_cache,
          token_file_lock, today, task, hist, preferences, sched, prompts,
          journal_entries, run, temp_files, norm_task, applied>>

----------------------------------------------------------------------------
(* Conversation states and modes                                           *)

SELECTING_MODE == "SELECTING_MODE"
CHATBOT_MODE == "CHATBOT_MODE"
JOURNAL_MODE == "JOURNAL_MODE"
OCR_MODE == "OCR_MODE"
\* ConversationHandler.END: the key has no entry in _conversations
END == "END"
\* what a handler returns when it returns the Message that reply_text gives
MESSAGE_OBJECT == "MESSAGE_OBJECT"
\* a handler that returns None, and the absent 'current_mode' key
None == "None"

Modes == {CHATBOT_MODE, JOURNAL_MODE, OCR_MODE}
ConvStates == Modes \cup {SELECTING_MODE, END, MESSAGE_OBJECT}

Users == {"u1"}
\* conversation keys (chat, user): the user talks to the bot in a private chat
\* and in a group chat; user_data is kept per user, conversations per key
Keys == {<<"private", "u1">>, <<"group", "u1">>}

StartCommands == {"start", "mode", "changemode"}
GlobalCommands == {"help", "setusername", "tokens", "feedback",
                   "enableprompts", "disableprompts"}
Commands == StartCommands \cup {"cancel", "end"} \cup GlobalCommands
ContentKinds == {"text", "voice", "photo", "document_image"}
CallbackData == Modes \cup {"OTHER"}

Updates ==
    [kind : {"command"}, arg : Commands]
      \cup [kind : {"content"}, arg : ContentKinds]
      \cup [kind : {"callback"}, arg : CallbackData]

NoUpdate == [kind |-> "none", arg |-> "none"]

\* an event of last.out is <<what kind of effect, which one>>
Ev(kind, what) == <<kind, what>>
IsReply(e) == e[1] \in {"reply", "edit", "photo"}
Replies(out) == SelectSeq(out, IsReply)
IsSideEffect(e) == e[1] \in {"gemini", "db", "download", "render"}
SideEffects(out) == SelectSeq(out, IsSideEffect)

\* what a handler call yields: its return value ("raise" when it raised), the
\* user's current_mode afterwards and the effects in order
Result(ret, mode, out) == [ret |-> ret, mode |-> mode, out |-> out]

----------------------------------------------------------------------------
(* Command handlers                                                        *)

start_command_clearsNothing(mode) ==
    Result(SELECTING_MODE, mode, <<Ev("reply", "choose_mode")>>)

\* start_command, also bound to /mode and /changemode
start_command(mode) ==
    Result(SELECTING_MODE, None,
           <<Ev("user_data", "pop_current_mode"), Ev("reply", "choose_mode")>>)

cancel_command(mode) ==
    LET s == start_command(None)
    IN  Result(s.ret, s.mode,
               <<Ev("user_data", "pop_current_mode"),
                 Ev("reply", "operation_cancelled")>> \o s.out)

end_session_command(mode) ==
    Result(END, None,
           <<Ev("user_data", "pop_current_mode"), Ev("reply", "session_ended")>>)

help_command(mode) ==
    Result(None, mode, <<Ev("reply", "help")>>)

\* args: what follows the command; db: outcome of the store calls ("raise"
\* when a db_utils call raises something other than sqlite3.Error)
ArgOutcomes == {"none", "invalid", "valid"}
DbOutcomes == {"ok", "fail", "raise"}
ArgOutcomesOf(cmd) ==
    IF cmd \in {"setusername", "feedback"} THEN ArgOutcomes ELSE {"none"}
DbOutcomesOf(cmd) ==
    CASE cmd \in {"setusername", "feedback"} -> {"ok", "fail"}
      [] cmd \in {"enableprompts", "disableprompts"} -> DbOutcomes
      [] OTHER -> {"ok"}

set_username_command(mode, args, db) ==
    CASE args = "none" -> Result(None, mode, <<Ev("reply", "setusername_usage")>>)
      [] args = "invalid" -> Result(None, mode, <<Ev("reply", "invalid_username")>>)
      [] OTHER ->
           CASE db = "ok" ->
                  Result(None, mode,
                         <<Ev("db", "set_display_name"), Ev("reply", "username_set")>>)
             [] OTHER -> Result(None, mode, <<Ev("reply", "error_saving_username")>>)

tokens_command_reply(mode) ==
    Result(None, mode, <<Ev("reply", "token_usage")>>)

feedback_command(mode, args, db) ==
    CASE args = "none" -> Result(None, mode, <<Ev("reply", "feedback_usage")>>)
      [] db = "ok" ->
           Result(None, mode, <<Ev("db", "add_feedback"), Ev("reply", "feedback_thanks")>>)
      [] OTHER -> Result(None, mode, <<Ev("reply", "feedback_error")>>)

enable_prompts_command(mode, db) ==
    CASE db = "ok" ->
           Result(None, mode,
                  <<Ev("db", "update_user_preferences"), Ev("reply", "prompts_enabled")>>)
      [] db = "fail" -> Result(None, mode, <<Ev("reply", "enable_prompts_error")>>)
      [] OTHER -> Result("raise", mode, <<>>)

disable_prompts_command(mode, db) ==
    CASE db = "ok" ->
           Result(None, mode,
                  <<Ev("db", "update_user_preferences"), Ev("reply", "prompts_disabled")>>)
      [] db = "fail" -> Result(None, mode, <<Ev("reply", "disable_prompts_error")>>)
      [] OTHER -> Result("raise", mode, <<>>)

global_command_resetsMode(cmd, mode, args, db) ==
    Result(None, None,
           <<Ev("user_data", "pop_current_mode"), Ev("reply", "help")>>)

\* the six commands registered both as fallbacks and as standalone handlers
global_command(cmd, mode, args, db) ==
    CASE cmd = "help" -> help_command(mode)
      [] cmd = "setusername" -> set_username_command(mode, args, db)
      [] cmd = "tokens" -> tokens_command_reply(mode)
      [] cmd = "feedback" -> feedback_command(mode, args, db)
      [] cmd = "enableprompts" -> enable_prompts_command(mode, db)
      [] OTHER -> disable_prompts_command(mode, db)

----------------------------------------------------------------------------
(* Mode selection                                                          *)

ModeInstruction(chosen_mode) ==
    CASE chosen_mode = CHATBOT_MODE -> "mode_set_chatbot_send_text_audio_or_image"
      [] chosen_mode = JOURNAL_MODE -> "mode_set_journal_send_entry"
      [] OTHER -> "mode_set_ocr_send_image"

\* tg: whether Telegram accepts the edit_message_text call.  A rejected edit
\* raises inside the try block; the first except clause names
\* telegram.error.BadRequest, and the name telegram is bound by no import of
\* the module, so evaluating the clause raises NameError out of the handler
\* with current_mode still set.
mode_button_callback(mode, chosen_mode, tg) ==
    LET pre == <<Ev("answer", "callback_query"), Ev("user_data", "set_current_mode")>>
    IN  IF chosen_mode \in Modes
        THEN IF tg = "ok"
             THEN Result(chosen_mode, chosen_mode,
                         pre \o <<Ev("edit", ModeInstruction(chosen_mode))>>)
             ELSE Result("raise", chosen_mode,
                         pre \o <<Ev("rejected", "edit_message_text")>>)
        ELSE IF tg = "ok"
             THEN Result(END, None,
                         pre \o <<Ev("edit", "invalid_mode_selected"),
                                  Ev("user_data", "pop_current_mode")>>)
             ELSE Result("raise", chosen_mode,
                         pre \o <<Ev("rejected", "edit_message_text")>>)

----------------------------------------------------------------------------
(* Input normalisation and the mode handlers                               *)

\* how one call of get_text_from_input goes: the path it takes (text
\* obtained; transcription or OCR gave an error result; the transcription is
\* the empty string; the image could not be opened; a call raised), whether
\* os.remove works, and whether Telegram deletes the status message when
\* asked
NormPaths == {"ok", "fail", "empty", "open_error", "exception"}
NormOutcomes ==
    [path : NormPaths, remove : {"ok", "oserror"}, delete : {"ok", "fail"}]
NormOk == [path |-> "ok", remove |-> "ok", delete |-> "ok"]
NormOutcomesOf(content) ==
    CASE content = "voice" -> {n \in NormOutcomes : n.path # "open_error"}
      \* an empty OCR result is one of the error results (line 568)
      [] content = "photo" -> {n \in NormOutcomes : n.path # "empty"}
      [] OTHER -> {NormOk}
\* results of generate_gemini_response as handle_chatbot_logic meets them:
\* usable text, "[BLOCKED: ...]", "[API ERROR: ...]" or None,
\* "[No text content received]", and the "[BLOCKED/STOPPED]" of a safety
\* exception
GeminiOutcomes == {"text", "blocked", "api_error", "empty", "stopped"}

\* result of get_text_from_input: whether a text came back, the input type,
\* whether an error message came back, and the effects
Norm(text, input_type, error, out) ==
    [text |-> text, input_type |-> input_type, error |-> error, out |-> out]

\* status_msg.delete(): the message goes, or the call fails and it stays
DeleteStatus(n) ==
    Ev("delete", IF n.delete = "ok" THEN "status" ELSE "status_failed")

\* the temporary file is on disk; the status message is on the user's screen
TempFileExists(out) ==
    \E i \in 1 .. Len(out) :
        /\ out[i][1] = "download"
        /\ \A k \in i + 1 .. Len(out) : out[k] # Ev("file", "remove_temp")
StatusMessageShown(out) ==
    \E i \in 1 .. Len(out) :
        /\ out[i][1] = "reply"
        /\ out[i][2] \in {"status_downloading_audio", "status_downloading_image"}
        /\ \A k \in i + 1 .. Len(out) : out[k] # Ev("delete", "status")

get_text_finally_keepsFileOnError(body, failed, n) ==
    body
    \o (IF TempFileExists(body) /\ ~failed
        THEN <<Ev("file", IF n.remove = "ok" THEN "remove_temp"
                          ELSE "remove_temp_oserror")>>
        ELSE <<>>)
    \o (IF \E i \in 1 .. Len(body) :
              body[i][1] = "reply"
              /\ body[i][2] \in {"status_downloading_audio", "status_downloading_image"}
        THEN <<DeleteStatus(n)>>
        ELSE <<>>)

\* the finally clause (lines 577-581), run after body on every way out; failed
\* says whether the body returned an error message
get_text_finally(body, failed, n) ==
    body
    \o (IF TempFileExists(body)
        THEN <<Ev("file", IF n.remove = "ok" THEN "remove_temp"
                          ELSE "remove_temp_oserror")>>
        ELSE <<>>)
    \o (IF \E i \in 1 .. Len(body) :
              body[i][1] = "reply"
              /\ body[i][2] \in {"status_downloading_audio", "status_downloading_image"}
        THEN <<DeleteStatus(n)>>
        ELSE <<>>)

\* the except clause of the main try block (lines 573-576)
get_text_except(n) == <<DeleteStatus(n)>>

\* the voice branch (lines 523-551): the exception of path "exception" is the
\* one a rejected transcript chunk ends in, 'except telegram.error.BadRequest'
\* raising NameError; an unguarded status_msg.delete() that fails raises too
get_text_voice(n) ==
    LET head == <<Ev("reply", "status_downloading_audio"),
                  Ev("download", "voice"),
                  Ev("edit", "status_transcribing"),
                  Ev("gemini", "transcribe")>>
        \* "" is neither None nor has "[" in it (line 532), and
        \* add_punctuation_with_gemini returns it as it is, without a model
        \* call (line 193)
        enhanced == head \o <<Ev("edit", "status_enhancing")>>
                    \o (IF n.path = "empty" THEN <<>>
                        ELSE <<Ev("gemini", "punctuate")>>)
                    \o <<DeleteStatus(n)>>
    IN  CASE n.path = "fail" ->
               Norm(FALSE, "audio", TRUE,
                    get_text_finally(head \o <<DeleteStatus(n)>>, TRUE, n))
          [] n.delete = "fail" ->
               Norm(FALSE, "audio", TRUE,
                    get_text_finally(enhanced \o get_text_except(n), TRUE, n))
          \* there is no chunk to show, and "" is returned as the text
          [] n.path = "empty" ->
               Norm(TRUE, "audio", FALSE,
                    get_text_finally(
                        enhanced \o <<Ev("reply", "transcript_header")>>, FALSE, n))
          [] n.path = "exception" ->
               Norm(FALSE, "audio", TRUE,
                    get_text_finally(
                        enhanced \o <<Ev("reply", "transcript_header")>>
                        \o get_text_except(n), TRUE, n))
          [] OTHER ->
               Norm(TRUE, "audio", FALSE,
                    get_text_finally(
                        enhanced \o <<Ev("reply", "transcript_header"),
                                      Ev("reply", "transcript_chunk")>>, FALSE, n))

\* the photo branch (lines 553-569): the exception of path "exception" is a
\* failed download
get_text_photo(n) ==
    LET head == <<Ev("reply", "status_downloading_image")>>
        opened == head \o <<Ev("download", "photo"),
                            Ev("edit", "status_processing_image")>>
        read == opened \o <<Ev("gemini", "ocr"), DeleteStatus(n)>>
    IN  CASE n.path = "exception" ->
               Norm(FALSE, "image", TRUE,
                    get_text_finally(head \o get_text_except(n), TRUE, n))
          [] n.path = "open_error" ->
               Norm(FALSE, "image", TRUE, get_text_finally(opened, TRUE, n))
          [] n.delete = "fail" ->
               Norm(FALSE, "image", TRUE,
                    get_text_finally(read \o get_text_except(n), TRUE, n))
          [] n.path = "fail" ->
               Norm(FALSE, "image", TRUE, get_text_finally(read, TRUE, n))
          [] OTHER ->
               Norm(TRUE, "image", FALSE, get_text_finally(read, FALSE, n))

get_text_from_input(content, norm) ==
    CASE content = "text" -> Norm(TRUE, "text", FALSE, get_text_finally(<<>>, FALSE, norm))
      [] content = "voice" -> get_text_voice(norm)
      [] content = "photo" -> get_text_photo(norm)
      \* an image sent as a document: message.text, .voice and .photo are all empty
      [] OTHER -> Norm(FALSE, None, TRUE, get_text_finally(<<>>, TRUE, norm))

\* lines 622-629: the tests look for "[API ERROR:" and "[BLOCKED:"; every
\* other response goes through reverse_alphabet and is shown
handle_chatbot_logic(gem) ==
    <<Ev("reply", "status_thinking"), Ev("gemini", "chat"),
      Ev("edit", CASE gem = "api_error" -> "chat_error_communicating"
                   [] gem = "blocked" -> "chat_response_blocked"
                   [] OTHER -> "chat_answer_reverse_alphabet")>>

\* outcomes the journal pipeline meets:
\*   entry    whether add_journal_entry stored the entry
\*   cat      the categorization response: usable text, a response carrying
\*            one of the three tags the pipeline looks for, the
\*            "[BLOCKED/STOPPED]" response of a safety exception, or None
\*   history  whether the user's recent entries all have sentiment and
\*            topics, or one of them has NULL there
\*   ana      the analysis response: with a DOT block, without, tagged,
\*            "[BLOCKED/STOPPED]", or None
\*   edit     whether Telegram accepts the edit that shows the analysis;
\*            it can reject text the model wrote (too long a message), the
\*            two fixed messages of the pipeline it accepts
\*   render   whether generate_mind_map_image gave a file
\*   send     whether reply_photo worked
JournalEnv(entry, cat, history, ana, edit, render, send) ==
    [entry |-> entry, cat |-> cat, history |-> history, ana |-> ana,
     edit |-> edit, render |-> render, send |-> send]
DefaultJournalEnv == JournalEnv(FALSE, "text", "ok", "none", "ok", TRUE, TRUE)
CatOutcomes == {"text", "tagged", "stopped", "none"}
AnaOutcomes == {"dot", "nodot", "tagged", "stopped", "none"}
\* one environment for each way the pipeline can go
JournalEnvs ==
    {DefaultJournalEnv}
    \cup {JournalEnv(TRUE, c, "null_fields", "none", "ok", TRUE, TRUE) : c \in CatOutcomes}
    \cup {JournalEnv(TRUE, c, "ok", a, "rejected", TRUE, TRUE) :
            c \in CatOutcomes, a \in {"dot", "nodot", "stopped"}}
    \cup {JournalEnv(TRUE, c, "ok", a, "ok", TRUE, TRUE) :
            c \in CatOutcomes, a \in AnaOutcomes}
    \cup {JournalEnv(TRUE, c, "ok", "dot", "ok", r, s) :
            c \in CatOutcomes, r \in BOOLEAN, s \in BOOLEAN}

\* one environment for each way the pipeline can end, as much as the
\* conversation machine can tell apart; SpecJournal takes all of JournalEnvs
JournalEnvSamples ==
    {DefaultJournalEnv,
     JournalEnv(TRUE, "text", "ok", "dot", "ok", TRUE, TRUE),
     JournalEnv(TRUE, "text", "ok", "dot", "ok", TRUE, FALSE),
     JournalEnv(TRUE, "text", "ok", "dot", "ok", FALSE, TRUE),
     JournalEnv(TRUE, "tagged", "ok", "nodot", "ok", TRUE, TRUE),
     JournalEnv(TRUE, "text", "ok", "tagged", "ok", TRUE, TRUE),
     JournalEnv(TRUE, "none", "ok", "none", "ok", TRUE, TRUE),
     JournalEnv(TRUE, "text", "null_fields", "none", "ok", TRUE, TRUE),
     JournalEnv(TRUE, "text", "ok", "dot", "rejected", TRUE, TRUE)}

\* a handler stops where it raises or returns early
Stopped(out) == out # <<>> /\ out[Len(out)][1] \in {"raise", "return"}
Raised(out) == out # <<>> /\ out[Len(out)][1] = "raise"

journal_persist_goesOn(j) ==
    <<Ev("db", "get_user"), Ev("reply", "status_saving")>>
    \o (IF j.entry
        THEN <<Ev("db", "add_journal_entry")>>
        ELSE <<Ev("db", "add_journal_entry_failed"),
               Ev("edit", "error_saving_entry")>>)

journal_persist_afterCategorization(j) ==
    <<Ev("db", "get_user"), Ev("reply", "status_saving")>>
    \o (IF j.entry
        THEN <<Ev("gemini", "categorization"), Ev("db", "add_journal_entry")>>
        ELSE <<Ev("db", "add_journal_entry_failed"),
               Ev("edit", "error_saving_entry"), Ev("return", "not_saved")>>)

\* lines 632-662: the user row, the status message, the insert
journal_persist(j) ==
    <<Ev("db", "get_user"), Ev("reply", "status_saving")>>
    \o (IF j.entry
        THEN <<Ev("db", "add_journal_entry")>>
        ELSE <<Ev("db", "add_journal_entry_failed"),
               Ev("edit", "error_saving_entry"), Ev("return", "not_saved")>>)

\* lines 664-697: the test of line 684 looks for "[BLOCKED:", "[API ERROR:"
\* and "[No text content received]"; "[BLOCKED/STOPPED]" has none of them
\* and is parsed like a usable response
journal_categorize(j) ==
    <<Ev("edit", "status_analyzing"), Ev("gemini", "categorization")>>
    \o (IF j.cat \in {"text", "stopped"}
        THEN <<Ev("db", "update_categorization")>>
        ELSE <<Ev("reply", "categorization_warning")>>)

\* lines 699-718: escape_markdown(entry.get('sentiment', 'N/A')) is given
\* None for an earlier entry whose column is NULL and raises TypeError
journal_history(j) ==
    <<Ev("edit", "status_thinking"), Ev("db", "get_recent_entries")>>
    \o (IF j.history = "null_fields" THEN <<Ev("raise", "TypeError")>> ELSE <<>>)

journal_analyze_updatesAgain(j) ==
    <<Ev("gemini", "analysis")>>
    \o (CASE j.ana = "dot" -> <<Ev("db", "update_analysis_and_dot"),
                               Ev("db", "update_analysis")>>
          [] j.ana \in {"nodot", "stopped"} -> <<Ev("db", "update_analysis"),
                                                 Ev("db", "update_analysis")>>
          [] j.ana = "tagged" -> <<Ev("db", "update_analysis_failed")>>
          [] OTHER -> <<>>)
    \o (IF j.edit = "ok"
        THEN <<Ev("edit", CASE j.ana = "dot" -> "analysis_before_dot"
                            [] j.ana \in {"nodot", "stopped"} -> "analysis_whole_response"
                            [] j.ana = "tagged" -> "analysis_blocked_or_error"
                            [] OTHER -> "analysis_not_generated")>>
        ELSE <<Ev("raise", "NameError")>>)

\* lines 766-803: the analysis call, the second update, and the edit that
\* shows the analysis; when the edit fails, 'except telegram.error.BadRequest'
\* raises NameError, telegram being no name of the module
journal_analyze(j) ==
    <<Ev("gemini", "analysis")>>
    \o (CASE j.ana = "dot" -> <<Ev("db", "update_analysis_and_dot")>>
          [] j.ana \in {"nodot", "stopped"} -> <<Ev("db", "update_analysis")>>
          [] j.ana = "tagged" -> <<Ev("db", "update_analysis_failed")>>
          [] OTHER -> <<>>)
    \o (IF j.edit = "ok"
        THEN <<Ev("edit", CASE j.ana = "dot" -> "analysis_before_dot"
                            [] j.ana \in {"nodot", "stopped"} -> "analysis_whole_response"
                            [] j.ana = "tagged" -> "analysis_blocked_or_error"
                            [] OTHER -> "analysis_not_generated")>>
        ELSE <<Ev("raise", "NameError")>>)

journal_mind_map_rendersWithoutDot(j) ==
    <<Ev("reply", "status_generating_mind_map"), Ev("render", "mind_map")>>
    \o (CASE ~j.render -> <<Ev("edit", "mind_map_not_generated")>>
          [] j.send -> <<Ev("photo", "mind_map"), Ev("delete", "map_status"),
                         Ev("file", "remove_png")>>
          [] OTHER -> <<Ev("edit", "error_sending_mind_map"),
                        Ev("file", "remove_png")>>)

\* lines 806-824
journal_mind_map(j) ==
    IF j.ana = "dot"
    THEN <<Ev("reply", "status_generating_mind_map"), Ev("render", "mind_map")>>
         \o (CASE ~j.render -> <<Ev("edit", "mind_map_not_generated")>>
               [] j.send -> <<Ev("photo", "mind_map"), Ev("delete", "map_status"),
                              Ev("file", "remove_png")>>
               [] OTHER -> <<Ev("edit", "error_sending_mind_map"),
                             Ev("file", "remove_png")>>)
    ELSE <<Ev("reply", "no_mind_map")>>

handle_journal_logic_historyFirst(j) ==
    LET saved == journal_persist(j)
        prepared == saved \o journal_history(j) \o journal_categorize(j)
        analyzed == prepared \o journal_analyze(j)
    IN  CASE Stopped(saved) -> saved
          [] Raised(saved \o journal_history(j)) -> saved \o journal_history(j)
          [] Stopped(analyzed) -> analyzed
          [] OTHER -> analyzed \o journal_mind_map(j)
                      \o <<Ev("reply", "fully_processed")>>

handle_journal_logic(j) ==
    LET saved == journal_persist(j)
        prepared == saved \o journal_categorize(j) \o journal_history(j)
        analyzed == prepared \o journal_analyze(j)
    IN  CASE Stopped(saved) -> saved
          [] Stopped(prepared) -> prepared
          [] Stopped(analyzed) -> analyzed
          [] OTHER -> analyzed \o journal_mind_map(j)
                      \o <<Ev("reply", "fully_processed")>>

handle_ocr_logic(input_type) ==
    IF input_type # "image"
    THEN <<Ev("reply", "ocr_requires_image_input")>>
    ELSE <<Ev("reply", "ocr_header"), Ev("reply", "ocr_chunk")>>

\* handle_input once it has found a mode in user_data
handle_input_dispatch(mode, content, norm, gem, j) ==
    LET n == get_text_from_input(content, norm)
        out == <<Ev("db", "get_user")>> \o n.out
               \o <<Ev("return", "get_text_from_input")>> \o
               (CASE n.error -> <<Ev("reply", "error_message")>>
                  [] ~n.text -> <<Ev("reply", "could_not_process")>>
                  [] mode = CHATBOT_MODE ->
                       <<Ev("call", "handle_chatbot_logic")>>
                       \o handle_chatbot_logic(gem)
                  [] mode = JOURNAL_MODE ->
                       <<Ev("call", "handle_journal_logic")>>
                       \o handle_journal_logic(j)
                  [] mode = OCR_MODE ->
                       <<Ev("call", "handle_ocr_logic")>>
                       \o handle_ocr_logic(n.input_type)
                  [] OTHER -> <<Ev("reply", "internal_error_invalid_mode")>>)
    IN  Result(IF Raised(out) THEN "raise" ELSE None, mode, out)

handle_input(mode, content, norm, gem, j) ==
    IF mode = None
    THEN Result(None, mode, <<Ev("reply", "select_mode_first")>>)
    ELSE handle_input_dispatch(mode, content, norm, gem, j)

\* the lambda registered for text and voice in OCR_MODE: it returns what
\* reply_text returns, a Message
ocr_requires_image(mode) ==
    Result(MESSAGE_OBJECT, mode, <<Ev("reply", "ocr_requires_image")>>)

\* the lambda of the last, standalone MessageHandler
begin_prompt(mode) ==
    Result(MESSAGE_OBJECT, mode, <<Ev("reply", "use_start_or_mode_to_begin")>>)

error_handler == <<Ev("reply", "apology")>>

----------------------------------------------------------------------------
(* Routing of one update: main()'s handler registration                    *)

StateHandler(state, chat, upd) ==
    CASE state = SELECTING_MODE /\ upd.kind = "callback" -> "mode_button_callback"
      [] state \in {CHATBOT_MODE, JOURNAL_MODE} /\ chat = "private"
           /\ upd.kind = "content" -> "handle_input"
      [] state = OCR_MODE /\ chat = "private" /\ upd.kind = "content"
           /\ upd.arg \in {"photo", "document_image"} -> "handle_input"
      [] state = OCR_MODE /\ chat = "private" /\ upd.kind = "content"
           /\ upd.arg \in {"text", "voice"} -> "ocr_requires_image"
      [] OTHER -> "none"

CommandCallback(cmd) ==
    CASE cmd \in StartCommands -> "start_command"
      [] cmd = "cancel" -> "cancel_command"
      [] cmd = "end" -> "end_session_command"
      [] OTHER -> "global_command"

\* ConversationHandler.check_update with allow_reentry=True: the entry points
\* are tried in every state; a key without a conversation matches nothing
\* else; otherwise the handlers of the state, then the fallbacks
conv_handler(state, chat, upd) ==
    CASE upd.kind = "command" /\ upd.arg \in StartCommands -> "start_command"
      [] state = END -> "none"
      [] StateHandler(state, chat, upd) # "none" -> StateHandler(state, chat, upd)
      [] upd.kind = "command" -> CommandCallback(upd.arg)
      [] OTHER -> "none"

\* the handlers added after conv_handler, all in the same group
standalone_handlers(chat, upd) ==
    CASE upd.kind = "command" /\ upd.arg \in GlobalCommands -> "global_command"
      [] upd.kind = "content" /\ upd.arg = "text" /\ chat = "private" -> "begin_prompt"
      [] OTHER -> "none"

\* the first handler of the group that accepts the update handles it
Route(state, chat, upd) ==
    IF conv_handler(state, chat, upd) # "none"
    THEN [handler |-> conv_handler(state, chat, upd), inConv |-> TRUE]
    ELSE [handler |-> standalone_handlers(chat, upd), inConv |-> FALSE]

\* ConversationHandler._update_state applied to what the callback returned
update_state(convs, k, ret) ==
    IF ret \in {None, "raise"} THEN convs ELSE [convs EXCEPT ![k] = ret]

NoKey == <<"none", "none">>
NoLast ==
    [key |-> NoKey, upd |-> NoUpdate, state |-> END, mode |-> None,
     handler |-> "none", out |-> <<>>, raised |-> FALSE, norm |-> NormOk,
     gem |-> "text"]

\* Application.process_update: run the callback; an exception it raises goes
\* to error_handler; a ConversationHandler stores the state it returned
\* norm is how get_text_from_input goes and gem what the chat model call
\* gives, for the one handler that makes these calls
ProcessInput(k, upd, h, r, norm, gem) ==
    /\ Route(conversations[k], k[1], upd).handler = h
    /\ conversations' =
         IF Route(conversations[k], k[1], upd).inConv
         THEN update_state(conversations, k, r.ret) ELSE conversations
    /\ user_data' = [user_data EXCEPT ![k[2]] = r.mode]
    /\ last' = [key |-> k, upd |-> upd, state |-> conversations[k],
                mode |-> user_data[k[2]], handler |-> h,
                out |-> IF r.ret = "raise" THEN r.out \o error_handler ELSE r.out,
                raised |-> (r.ret = "raise"), norm |-> norm, gem |-> gem]
    /\ UNCHANGED <<tokVars, schedVars, journalVars, tempVars, applied>>

Process(k, upd, h, r) == ProcessInput(k, upd, h, r, NormOk, "text")

Cmd(c) == [kind |-> "command", arg |-> c]
Content(c) == [kind |-> "content", arg |-> c]
Callback(d) == [kind |-> "callback", arg |-> d]

StartCommand ==
    \E k \in Keys, c \in StartCommands :
        Process(k, Cmd(c), "start_command", start_command(user_data[k[2]]))

CancelCommand ==
    \E k \in Keys :
        Process(k, Cmd("cancel"), "cancel_command", cancel_command(user_data[k[2]]))

EndSessionCommand ==
    \E k \in Keys :
        Process(k, Cmd("end"), "end_session_command",
                end_session_command(user_data[k[2]]))

GlobalCommand ==
    \E k \in Keys, c \in GlobalCommands :
        \E args \in ArgOutcomesOf(c), db \in DbOutcomesOf(c) :
            Process(k, Cmd(c), "global_command",
                    global_command(c, user_data[k[2]], args, db))

ModeButtonCallback ==
    \E k \in Keys, d \in CallbackData, tg \in {"ok", "rejected"} :
        Process(k, Callback(d), "mode_button_callback",
                mode_button_callback(user_data[k[2]], d, tg))

HandleInput ==
    \E k \in Keys, c \in ContentKinds :
        \E norm \in IF user_data[k[2]] = None THEN {NormOk} ELSE NormOutcomesOf(c) :
            \E gem \in IF user_data[k[2]] = CHATBOT_MODE
                          /\ get_text_from_input(c, norm).text
                       THEN GeminiOutcomes ELSE {"text"} :
                \E j \in IF user_data[k[2]] = JOURNAL_MODE
                            /\ get_text_from_input(c, norm).text
                         THEN JournalEnvSamples ELSE {DefaultJournalEnv} :
                    ProcessInput(k, Content(c), "handle_input",
                                 handle_input(user_data[k[2]], c, norm, gem, j),
                                 norm, gem)

OcrRequiresImage ==
    \E k \in Keys, c \in ContentKinds :
        Process(k, Content(c), "ocr_requires_image",
                ocr_requires_image(user_data[k[2]]))

BeginPrompt ==
    \E k \in Keys, c \in ContentKinds :
        Process(k, Content(c), "begin_prompt", begin_prompt(user_data[k[2]]))

\* an update no handler accepts is dropped
Unhandled ==
    \E k \in Keys, upd \in Updates :
        Process(k, upd, "none", Result(None, user_data[k[2]], <<>>))

ConvInit ==
    /\ conversations = [k \in Keys |-> END]
    /\ user_data = [u \in Users |-> None]
    /\ last = NoLast

ConvNext ==
    \/ StartCommand
    \/ CancelCommand
    \/ EndSessionCommand
    \/ GlobalCommand
    \/ ModeButtonCallback
    \/ HandleInput
    \/ OcrRequiresImage
    \/ BeginPrompt
    \/ Unhandled

----------------------------------------------------------------------------
(* Token usage counter                                                     *)

NumTasks == 2
MaxIncs == 3
MaxDay == 2

Tasks == 1 .. NumTasks

\* (prompt_tokens, candidate_tokens) of a model call
TokenCounts == {<<10, 5>>, <<3, 2>>, <<0, 1>>}

TokenData(total, date, count, session) ==
    [total |-> total, date |-> date, count |-> count, session |-> session]
NoData == TokenData(0, 0, 0, 0)

IdleTask == [pc |-> "idle", kind |-> "none", inc |-> 0, day |-> 0, cur |-> NoData]

\* lines 144-149 of increment_token_usage, on the data just loaded
increment_token_usage_noDailyReset(current_data, session, day, total_increment) ==
    TokenData(current_data.total + total_increment, day,
              current_data.count + total_increment,
              session + total_increment)

increment_token_usage(current_data, session, day, total_increment) ==
    LET daily == IF current_data.date # day
                 THEN [date |-> day, count |-> 0]
                 ELSE [date |-> current_data.date, count |-> current_data.count]
    IN  TokenData(current_data.total + total_increment, daily.date,
                  daily.count + total_increment,
                  session + total_increment)

tokens_command_resetsTotal(current_data, day) ==
    IF current_data.date # day
    THEN TokenData(0, day, 0, current_data.session)
    ELSE current_data

\* lines 315-317 of tokens_command
tokens_command(current_data, day) ==
    IF current_data.date # day
    THEN TokenData(current_data.total, day, 0, current_data.session)
    ELSE current_data

\* a model call reports its usage: increment_token_usage up to its first await
IncrementCall(t) ==
    \E pc \in TokenCounts :
        /\ task[t].pc = "idle"
        /\ Len(hist.incs) < MaxIncs
        /\ task' = [task EXCEPT ![t] = [pc |-> "load", kind |-> "inc",
                                        inc |-> pc[1] + pc[2], day |-> today,
                                        cur |-> NoData]]
        /\ hist' = [hist EXCEPT !.incs = Append(@, <<today, pc[1] + pc[2]>>)]
        /\ UNCHANGED <<token_file, token_data_cache, token_file_lock, today>>

\* /tokens: tokens_command up to its first await
TokensCall(t) ==
    /\ task[t].pc = "idle"
    /\ task' = [task EXCEPT ![t] = [pc |-> "load", kind |-> "query", inc |-> 0,
                                    day |-> 0, cur |-> NoData]]
    /\ UNCHANGED <<token_file, token_data_cache, token_file_lock, today, hist>>

\* async with token_file_lock, in load_token_data and in save_token_data
LockAcquire(t) ==
    /\ task[t].pc \in {"load", "save"}
    /\ token_file_lock = {}
    /\ token_file_lock' = {t}
    /\ task' = [task EXCEPT ![t].pc = IF @ = "load" THEN "loading" ELSE "saving"]
    /\ UNCHANGED <<token_file, token_data_cache, today, hist>>

\* load_token_data reads the file and releases the lock; the caller then runs
\* to its next await
LoadTokenData(t) ==
    /\ task[t].pc = "loading"
    /\ token_file_lock = {t}
    /\ token_file_lock' = {}
    /\ IF task[t].kind = "inc"
       THEN /\ task' = [task EXCEPT ![t].pc = "save",
                           ![t].cur = increment_token_usage(
                                        token_file, token_data_cache,
                                        task[t].day, task[t].inc)]
            /\ token_data_cache' = token_data_cache + task[t].inc
       ELSE /\ task' = [task EXCEPT ![t] =
                           IF token_file.date # today
                           THEN [@ EXCEPT !.pc = "save",
                                          !.cur = tokens_command(token_file, today)]
                           ELSE IdleTask]
            /\ UNCHANGED token_data_cache
    /\ UNCHANGED <<token_file, today, hist>>

\* save_token_data writes the file and releases the lock; the caller finishes
SaveTokenData(t) ==
    /\ task[t].pc = "saving"
    /\ token_file_lock = {t}
    /\ token_file_lock' = {}
    /\ token_file' = task[t].cur
    /\ task' = [task EXCEPT ![t] = IdleTask]
    /\ UNCHANGED <<token_data_cache, today, hist>>

\* midnight passes
NextDay ==
    /\ today < MaxDay
    /\ today' = today + 1
    /\ UNCHANGED <<token_file, token_data_cache, token_file_lock, task, hist>>

AllIdle == \A t \in Tasks : task[t].pc = "idle"

\* the state initialize_token_data leaves: the persisted total and daily
\* count loaded, the session counter zeroed and saved
TokenFilesAtStart == {TokenData(0, 0, 0, 0), TokenData(9, 0, 4, 0), TokenData(9, 1, 4, 0)}

\* what the file may hold when the process starts: nothing yet, or what an
\* earlier process left, with that process's session count
TokenFilesBeforeStart ==
    {TokenData(0, 0, 0, 0), TokenData(9, 0, 4, 7), TokenData(9, 1, 4, 7)}

\* initialize_token_data (lines 131-137): the data loaded, with session 0,
\* is the cache and is saved
initialize_token_data(loaded_data) ==
    TokenData(loaded_data.total, loaded_data.date, loaded_data.count, 0)

TokInitWith(files) ==
    /\ token_file \in files
    /\ token_data_cache = 0
    /\ token_file_lock = {}
    /\ today = 1
    /\ task = [t \in Tasks |-> IdleTask]
    /\ hist = [total0 |-> token_file.total, date0 |-> token_file.date,
               count0 |-> token_file.count, incs |-> <<>>]

TokStep(t) ==
    \/ LockAcquire(t)
    \/ LoadTokenData(t)
    \/ SaveTokenData(t)

TokNext ==
    /\ \/ \E t \in Tasks : IncrementCall(t)
       \/ \E t \in Tasks : TokensCall(t)
       \/ \E t \in Tasks : TokStep(t)
       \/ NextDay
    /\ UNCHANGED <<convVars, schedVars, journalVars, tempVars, applied>>

\* one call at a time: a call starts only when no other is in progress
TokSeqNext ==
    /\ \/ AllIdle /\ \E t \in Tasks : IncrementCall(t)
       \/ AllIdle /\ \E t \in Tasks : TokensCall(t)
       \/ \E t \in Tasks : TokStep(t)
       \/ NextDay
    /\ UNCHANGED <<convVars, schedVars, journalVars, tempVars, applied>>

----------------------------------------------------------------------------
(* Daily prompt scheduler                                                  *)

MaxSchedDay == 1

\* datetime_time(9, 0), in minutes of the day
DefaultPromptTime == 540

\* the users table, in the order the rows are returned
SchedUsers == <<"u1", "u2">>
SchedUserSet == {SchedUsers[i] : i \in 1 .. Len(SchedUsers)}

\* the times of day, in minutes, at which the hourly scans of a day fall:
\* 08:00, 09:00 and 19:00
ScanTimes == <<480, 540, 1140>>

\* values of preferred_prompt_time: two well-formed ones, one that strptime
\* rejects, and the key missing
PrefTimes == {"09:00", "18:00", "9am", "absent"}

\* the stored preferences text of a user: text json.loads rejects, or an
\* object with the three recognised keys (last: no date, or one day)
Prefs(parsable, enabled, time, lastdate) ==
    [parsable |-> parsable, enabled |-> enabled, time |-> time, last |-> lastdate]
UnparsablePrefs == Prefs(FALSE, FALSE, "absent", {})
PrefValues ==
    {UnparsablePrefs, Prefs(TRUE, FALSE, "09:00", {})} \cup
    {Prefs(TRUE, TRUE, t, l) : t \in PrefTimes, l \in {{}, {0}, {1}}}

\* datetime.strptime(s, '%H:%M').time(), in minutes; "ValueError" when rejected
strptime(s) ==
    CASE s = "09:00" -> 540
      [] s = "18:00" -> 1080
      [] OTHER -> -1

\* lines 427-432: the default '09:00' for a missing key, datetime_time(9, 0)
\* when strptime raises ValueError
preferred_time_obj(p) ==
    LET preferred_time_str == IF p.time = "absent" THEN "09:00" ELSE p.time
    IN  IF strptime(preferred_time_str) < 0
        THEN DefaultPromptTime
        ELSE strptime(preferred_time_str)

\* db_utils.get_users_for_daily_prompt_check: the users whose stored
\* preferences have daily prompts enabled, with their preferences text; a row
\* whose text cannot be read as an object is returned too
get_users_for_daily_prompt_check(prefs) ==
    SelectSeq(SchedUsers, LAMBDA u : ~prefs[u].parsable \/ prefs[u].enabled)

\* db_utils.update_user_preferences(user_id, other_prefs=...): without a
\* connection it returns False; otherwise it reaches json.loads or json.dumps,
\* and db_utils never imports json: NameError, which is not an sqlite3.Error,
\* leaves the function; nothing is written either way
update_user_preferences(conn, stored, other_prefs) ==
    IF ~conn
    THEN [ret |-> "False", stored |-> stored]
    ELSE [ret |-> "raise", stored |-> stored]

PromptOutcomes == {"prompt", "none"}
SendOutcomes == {"ok", "error"}

\* what one pass of the for loop does with a row: whether a prompt was sent,
\* whether update_user_preferences was called, what went wrong, and the
\* stored preferences afterwards
RowResult(sent, updated, failure, stored) ==
    [sent |-> sent, updated |-> updated, failure |-> failure, stored |-> stored]

daily_prompt_row_ignoresPreferredTime(p, stored, now_time, today_str, prompt, send, conn) ==
    IF ~p.parsable
    THEN RowResult(FALSE, FALSE, "unparsable", stored)
    ELSE IF p.enabled /\ p.last # {today_str}
         THEN IF prompt = "none"
              THEN RowResult(FALSE, FALSE, "no_prompt", stored)
              ELSE IF send = "error"
                   THEN RowResult(FALSE, FALSE, "send", stored)
                   ELSE LET u == update_user_preferences(
                                     conn, stored, [p EXCEPT !.last = {today_str}])
                        IN  RowResult(TRUE, TRUE,
                                      IF u.ret = "raise" THEN "update" ELSE "none",
                                      u.stored)
         ELSE RowResult(FALSE, FALSE, "none", stored)

\* lines 415-447, the body of the for loop over users_to_prompt; p is the
\* row's preferences text as fetched when the scan began
daily_prompt_row(p, stored, now_time, today_str, prompt, send, conn) ==
    IF ~p.parsable
    THEN RowResult(FALSE, FALSE, "unparsable", stored)
    ELSE IF p.enabled /\ p.last # {today_str}
         THEN IF now_time >= preferred_time_obj(p)
              THEN IF prompt = "none"
                   THEN RowResult(FALSE, FALSE, "no_prompt", stored)
                   ELSE IF send = "error"
                        THEN RowResult(FALSE, FALSE, "send", stored)
                        ELSE LET u == update_user_preferences(
                                          conn, stored, [p EXCEPT !.last = {today_str}])
                             IN  RowResult(TRUE, TRUE,
                                           IF u.ret = "raise" THEN "update" ELSE "none",
                                           u.stored)
              ELSE RowResult(FALSE, FALSE, "none", stored)
         ELSE RowResult(FALSE, FALSE, "none", stored)

\* the except clauses of lines 421-423 and 445-446 and the else of 447-448:
\* whatever went wrong with a row, the for loop goes on with the next one
next_rows_stopsAtFailure(rows, failure) ==
    IF failure # "none" THEN <<>> ELSE Tail(rows)

next_rows(rows, failure) == Tail(rows)

NoStep ==
    [user |-> "none", p |-> UnparsablePrefs, before |-> UnparsablePrefs,
     now_time |-> 0, today_str |-> 0, sent |-> FALSE, updated |-> FALSE,
     failure |-> "none"]
NoScan ==
    [fetched |-> {}, examined |-> {}, failed |-> {}, sent |-> {},
     snapshot |-> [u \in SchedUserSet |-> UnparsablePrefs],
     now_time |-> 0, today_str |-> 0, state |-> "none"]

\* asyncio.sleep(3600) returns and a scan begins (lines 404-413); fetch is
\* whether get_users_for_daily_prompt_check returned or raised
ScanBegin ==
    \E fetch \in {"rows", "raise"} :
        LET day == IF sched.idx < Len(ScanTimes) THEN sched.day ELSE sched.day + 1
            idx == IF sched.idx < Len(ScanTimes) THEN sched.idx + 1 ELSE 1
            users == get_users_for_daily_prompt_check(preferences)
            rows == [i \in 1 .. Len(users) |->
                       [user |-> users[i], p |-> preferences[users[i]]]]
            begun == [NoScan EXCEPT !.now_time = ScanTimes[idx], !.today_str = day]
        IN  /\ sched.pc = "sleep"
            /\ day <= MaxSchedDay
            /\ IF fetch = "raise"
               THEN /\ sched' = [sched EXCEPT !.day = day, !.idx = idx]
                    /\ prompts' = [prompts EXCEPT
                                     !.scan = [begun EXCEPT !.state = "aborted"]]
               ELSE /\ sched' = [day |-> day, idx |-> idx,
                                 pc |-> IF rows = <<>> THEN "sleep" ELSE "scan",
                                 rows |-> rows]
                    /\ prompts' = [prompts EXCEPT !.scan =
                                     [begun EXCEPT
                                        !.fetched = {users[i] : i \in 1 .. Len(users)},
                                        !.snapshot = preferences,
                                        !.state = IF rows = <<>> THEN "done"
                                                  ELSE "running"]]
            /\ UNCHANGED <<preferences, convVars, tokVars, journalVars, tempVars, applied>>

\* one pass of the for loop (lines 415-447)
ScanRow ==
    \E prompt \in PromptOutcomes, send \in SendOutcomes, conn \in BOOLEAN :
        LET row == Head(sched.rows)
            scan == prompts.scan
            r == daily_prompt_row(row.p, preferences[row.user], scan.now_time,
                                  scan.today_str, prompt, send, conn)
            rest == next_rows(sched.rows, r.failure)
        IN  /\ sched.pc = "scan"
            /\ preferences' = [preferences EXCEPT ![row.user] = r.stored]
            /\ sched' = [sched EXCEPT !.rows = rest,
                                      !.pc = IF rest = <<>> THEN "sleep" ELSE "scan"]
            /\ prompts' =
                 [count |-> IF r.sent
                            THEN [prompts.count EXCEPT
                                    ![row.user][scan.today_str] = @ + 1]
                            ELSE prompts.count,
                  step |-> [user |-> row.user, p |-> row.p,
                            before |-> preferences[row.user],
                            now_time |-> scan.now_time,
                            today_str |-> scan.today_str, sent |-> r.sent,
                            updated |-> r.updated, failure |-> r.failure],
                  scan |-> [scan EXCEPT
                              !.examined = @ \cup {row.user},
                              !.failed = IF r.failure # "none"
                                         THEN @ \cup {row.user} ELSE @,
                              !.sent = IF r.sent THEN @ \cup {row.user} ELSE @,
                              !.state = IF rest = <<>> THEN "done" ELSE "running"]]
            /\ UNCHANGED <<convVars, tokVars, journalVars, tempVars, applied>>

SchedInitWith(values) ==
    /\ preferences \in [SchedUserSet -> values]
    /\ sched = [day |-> 1, idx |-> 0, pc |-> "sleep", rows |-> <<>>]
    /\ prompts = [count |-> [u \in SchedUserSet |-> [d \in 1 .. MaxSchedDay |-> 0]],
                  step |-> NoStep, scan |-> NoScan]

SchedNext ==
    \/ ScanBegin
    \/ ScanRow

----------------------------------------------------------------------------
(* The journal table and the pipeline runs: db_utils.py lines 166-234,     *)
(* New_Main.py lines 631-826                                              *)

MaxEntries == 2
RecentLimit == 5
JournalUsers == {"u1", "u2"}

\* a row of journal_entries: its owner, and for each group of analysis
\* columns whether it holds a value (TRUE) or NULL (FALSE); updates counts
\* the calls of update_journal_entry_analysis made for the row
Entry(user, sentiment, ai_analysis_text, dot_code, updates) ==
    [user |-> user, sentiment |-> sentiment,
     ai_analysis_text |-> ai_analysis_text, dot_code |-> dot_code,
     updates |-> updates]

\* the insert commits at once; the id returned is the row's position
add_journal_entry(table, user) ==
    Append(table, Entry(user, FALSE, FALSE, FALSE, 0))

\* the arguments say which values are given (not None): sentiment stands
\* for sentiment, topics and categories, which the pipeline passes together
update_journal_entry_analysis(table, entry_id, sentiment, ai_analysis_text, dot_code) ==
    IF entry_id \in DOMAIN table
    THEN [table EXCEPT ![entry_id] =
            Entry(@.user, @.sentiment \/ sentiment,
                  @.ai_analysis_text \/ ai_analysis_text,
                  @.dot_code \/ dot_code, @.updates + 1)]
    \* WHERE entry_id = ? finds no row
    ELSE table

RECURSIVE NewestFirst(_, _, _)
NewestFirst(table, user, i) ==
    IF i = 0 THEN <<>>
    ELSE (IF table[i].user = user THEN <<i>> ELSE <<>>)
         \o NewestFirst(table, user, i - 1)

get_journal_entries_by_user_ofAnyUser(table, user, limit) ==
    LET ids == [k \in 1 .. Len(table) |-> Len(table) + 1 - k]
    IN  IF Len(ids) <= limit THEN ids ELSE SubSeq(ids, 1, limit)

\* ORDER BY timestamp DESC LIMIT ?: the ids of the user's rows, newest first
get_journal_entries_by_user(table, user, limit) ==
    LET ids == NewestFirst(table, user, Len(table))
    IN  IF Len(ids) <= limit THEN ids ELSE SubSeq(ids, 1, limit)

\* what the loop of lines 705-716 meets in the rows fetched at line 701
recent_history(table, user, entry_id) ==
    LET ids == get_journal_entries_by_user(table, user, RecentLimit)
    IN  IF \E i \in 1 .. Len(ids) :
              ids[i] # entry_id /\ ~table[ids[i]].sentiment
        THEN "null_fields" ELSE "ok"

\* the table after the database calls among the effects out, made by a run
\* for user whose row, once added, is entry_id
RECURSIVE ApplyDb(_, _, _, _)
ApplyDb(table, user, entry_id, out) ==
    IF out = <<>> THEN table
    ELSE ApplyDb(
           CASE Head(out) = Ev("db", "add_journal_entry") ->
                  add_journal_entry(table, user)
             [] Head(out) = Ev("db", "update_categorization") ->
                  update_journal_entry_analysis(table, entry_id, TRUE, FALSE, FALSE)
             [] Head(out) = Ev("db", "update_analysis_and_dot") ->
                  update_journal_entry_analysis(table, entry_id, FALSE, TRUE, TRUE)
             [] Head(out) \in {Ev("db", "update_analysis"),
                               Ev("db", "update_analysis_failed")} ->
                  update_journal_entry_analysis(table, entry_id, FALSE, TRUE, FALSE)
             [] OTHER -> table,
           user, entry_id, Tail(out))

NoRun == [user |-> None, env |-> DefaultJournalEnv, entry_id |-> 0,
          before |-> <<>>, out |-> <<>>, raised |-> FALSE]

\* one message of a user in JOURNAL_MODE goes through handle_journal_logic;
\* an exception leaving it reaches error_handler
JournalRun ==
    \E u \in JournalUsers, j \in JournalEnvs :
        LET entry_id == Len(journal_entries) + 1
            out == handle_journal_logic(j)
        IN  /\ j.entry => Len(journal_entries) < MaxEntries
            /\ j.entry => j.history = recent_history(
                              add_journal_entry(journal_entries, u), u, entry_id)
            /\ journal_entries' = ApplyDb(journal_entries, u, entry_id, out)
            /\ run' = [user |-> u, env |-> j,
                       entry_id |-> IF j.entry THEN entry_id ELSE 0,
                       before |-> journal_entries,
                       out |-> IF Raised(out) THEN out \o error_handler ELSE out,
                       raised |-> Raised(out)]
            /\ UNCHANGED <<convVars, tokVars, schedVars, tempVars, applied>>

JournalInitWith(tables) ==
    /\ journal_entries \in tables
    /\ run = NoRun

JournalNext == JournalRun

----------------------------------------------------------------------------
(* Temporary files of concurrent get_text_from_input calls: New_Main.py    *)
(* lines 523-531 and 553-581                                              *)

NormTasks == {"t1", "t2"}
TempUsers == {"u1", "u2"}
\* what is sent: a voice clip or a photo, by Telegram's file_unique_id; a
\* clip or photo sent again has the file_unique_id it had before
TempItems == {<<"voice", "A">>, <<"voice", "B">>, <<"photo", "A">>}

\* os.path.join(TEMP_DIR, f"{user_id}_{file_unique_id}.ogg"), or ".jpg"
temp_file_path(user, item) ==
    <<user, item[2], IF item[1] = "voice" THEN "ogg" ELSE "jpg">>

IdleNorm == [pc |-> "idle", user |-> None, item |-> <<None, None>>,
             found |-> TRUE]

\* a call starts for the voice clip or photo of an update
NormBegin(t) ==
    \E u \in TempUsers, f \in TempItems :
        /\ norm_task[t].pc = "idle"
        /\ norm_task' = [norm_task EXCEPT
                            ![t] = [pc |-> "download", user |-> u, item |-> f,
                                    found |-> TRUE]]
        /\ UNCHANGED temp_files

\* download_to_drive writes the file, over whatever the path held
NormDownload(t) ==
    /\ norm_task[t].pc = "download"
    /\ temp_files' = temp_files
                       \cup {temp_file_path(norm_task[t].user, norm_task[t].item)}
    /\ norm_task' = [norm_task EXCEPT ![t].pc = "process"]

\* transcribe_audio_with_gemini tests os.path.exists(audio_path);
\* PIL.Image.open raises FileNotFoundError
NormRead(t) ==
    /\ norm_task[t].pc = "process"
    /\ norm_task' = [norm_task EXCEPT
                        ![t].pc = "cleanup",
                        ![t].found = temp_file_path(norm_task[t].user,
                                                    norm_task[t].item)
                                       \in temp_files]
    /\ UNCHANGED temp_files

\* the finally clause: os.remove(temp_file_path) if the path exists
NormCleanup(t) ==
    /\ norm_task[t].pc = "cleanup"
    /\ temp_files' = temp_files
                       \ {temp_file_path(norm_task[t].user, norm_task[t].item)}
    /\ norm_task' = [norm_task EXCEPT ![t].pc = "idle"]

TempInit ==
    /\ temp_files = {}
    /\ norm_task = [t \in NormTasks |-> IdleNorm]

TempNext ==
    \E t \in NormTasks :
        /\ \/ NormBegin(t)
           \/ NormDownload(t)
           \/ NormRead(t)
           \/ NormCleanup(t)
        /\ UNCHANGED <<convVars, tokVars, schedVars, journalVars, applied>>

NoApplication == [fn |-> "none", kind |-> "none", input |-> <<>>,
                  output |-> <<>>]

----------------------------------------------------------------------------
(* Text functions of the journal pipeline.  A string is a sequence of      *)
(* one-character strings, so that strip, replace, split and find work on   *)
(* characters as str's methods do.                                         *)

MaxLabelLen == 3

SeqsUpTo(S, n) == UNION {[1 .. k -> S] : k \in 0 .. n}

\* the characters str.strip() removes, as far as they occur here
Whitespace == {" ", "\t", "\n"}

\* the grave accent, which a string literal of this language cannot hold
Backtick == "backtick"

\* the characters the label expression treats differently, and one it does not
LabelChars == {"a", " ", "\t", "-", "_", "'", Backtick, "\"", "\\"}
LabelStrings == SeqsUpTo(LabelChars, MaxLabelLen)

\* str.strip()
strip(s) ==
    LET kept == {i \in 1 .. Len(s) : s[i] \notin Whitespace}
    IN  IF kept = {}
        THEN <<>>
        ELSE SubSeq(s, CHOOSE i \in kept : \A k \in kept : i <= k,
                       CHOOSE i \in kept : \A k \in kept : i >= k)

\* str.replace(old, new) for a one-character old
RECURSIVE replace(_, _, _)
replace(s, old, new) ==
    IF s = <<>>
    THEN <<>>
    ELSE (IF Head(s) = old THEN new ELSE <<Head(s)>>)
           \o replace(Tail(s), old, new)

topic_label_underscoreToHyphen(topic) ==
    replace(replace(replace(replace(replace(strip(topic),
        "_", <<"-">>), " ", <<"_">>), "'", <<>>), Backtick, <<>>), "\"", <<>>)

\* New_Main.py line 753 (and 754 for categories): the expression inside the
\* label; its last replace has the double quote character as old and the
\* empty string as new
topic_label(topic) ==
    replace(replace(replace(replace(replace(strip(topic),
        "-", <<"_">>), " ", <<"_">>), "'", <<>>), Backtick, <<>>), "\"", <<>>)

\* test_topic_escaping.py line 8: the last replace has backslash-quote as new
processed_topic(topic_str) ==
    replace(replace(replace(replace(replace(strip(topic_str),
        "-", <<"_">>), " ", <<"_">>), "'", <<>>), Backtick, <<>>),
        "\"", <<"\\", "\"">>)

LabelFns == {"topic_label", "processed_topic"}

Sanitized(fn, s) ==
    IF fn = "topic_label" THEN topic_label(s) ELSE processed_topic(s)

\* a text waiting for the function that is applied to it
Given(kind, s) == [fn |-> "none", kind |-> kind, input |-> s, output |-> <<>>]

\* a topic or category string is made into the text of a label
Sanitize ==
    \E fn \in LabelFns :
        /\ applied.fn = "none"
        /\ applied.kind = "label"
        /\ applied' = [applied EXCEPT
                          !.fn = fn,
                          !.output = Sanitized(fn, applied.input)]

MaxTopics == 2

NA == <<"N", "/", "A">>

\* what the model may write between two commas of its Topics or Categories
\* line
TopicItems ==
    {<<>>, <<" ">>, NA, <<" ">> \o NA, NA \o <<" ">>, <<" ">> \o NA \o <<" ">>,
     <<"a">>, <<" ", "a">>, NA \o <<"a">>}

\* str.join
RECURSIVE join(_, _)
join(sep, items) ==
    IF items = <<>> THEN <<>>
    ELSE IF Len(items) = 1 THEN items[1]
    ELSE items[1] \o sep \o join(sep, Tail(items))

\* str.split(sep) for a one-character sep: "" gives one empty item
RECURSIVE split(_, _)
split(s, sep) ==
    IF \A i \in 1 .. Len(s) : s[i] # sep
    THEN <<s>>
    ELSE LET at == CHOOSE i \in 1 .. Len(s) :
                     s[i] = sep /\ \A k \in 1 .. i - 1 : s[k] # sep
         IN  <<SubSeq(s, 1, at - 1)>> \o split(SubSeq(s, at + 1, Len(s)), sep)

\* the topics or categories string: the stripped rest of the line (New_Main.py
\* lines 689-691)
TopicStrings ==
    {strip(join(<<",">>, items)) : items \in SeqsUpTo(TopicItems, MaxTopics) \ {<<>>}}

\* enumerate(...): the items with their positions, counted from 0
enumerate(items) == [k \in 1 .. Len(items) |-> <<k - 1, items[k]>>]

\* New_Main.py line 753 (754): one node for every item of the list that
\* passes "topic.strip() and topic != 'N/A'"
topics_dot_str(topics) ==
    LET pairs == enumerate(split(topics, ","))
    IN  SelectSeq([k \in 1 .. Len(pairs) |->
                      [i |-> pairs[k][1], topic |-> pairs[k][2],
                       label |-> topic_label(pairs[k][2])]],
                  LAMBDA n : strip(n.topic) # <<>> /\ n.topic # NA)

\* test_topic_escaping.py lines 35-43: the test's copy of the loop, which
\* compares the stripped item with 'N/A'
generated_dot_parts(topics_string) ==
    LET pairs == enumerate(split(topics_string, ","))
    IN  SelectSeq([k \in 1 .. Len(pairs) |->
                      [i |-> pairs[k][1], topic |-> pairs[k][2],
                       label |-> processed_topic(strip(pairs[k][2]))]],
                  LAMBDA n : strip(n.topic) # <<>> /\ strip(n.topic) # NA)

NodeFns == {"topics_dot_str", "generated_dot_parts"}

\* the nodes of a topics or categories string are made
MakeNodes ==
    \E fn \in NodeFns :
        /\ applied.fn = "none"
        /\ applied.kind = "topics"
        /\ applied' = [applied EXCEPT
                          !.fn = fn,
                          !.output = IF fn = "topics_dot_str"
                                     THEN topics_dot_str(applied.input)
                                     ELSE generated_dot_parts(applied.input)]

MaxLines == 2

\* the three labels of the categorization prompt (lines 676-678); a label
\* with its colon is one character of the model, in two spellings where the
\* case differs
Labels == {"Sentiment:", "Topics:", "Categories:"}
LabelSpellings == Labels \cup {"sentiment:", "TOPICS:"}

\* re.IGNORECASE
casefold(c) ==
    IF c = "sentiment:" THEN "Sentiment:"
    ELSE IF c = "TOPICS:" THEN "Topics:"
    ELSE c

\* what may follow a label on its line
Rests == {<<>>, <<" ", "x", " ">>, <<"y">>}

ResponseLines ==
    {<<l>> \o r : l \in LabelSpellings, r \in Rests} \cup {<<"z">>}

CategorizationResponses ==
    {join(<<"\n">>, lines) : lines \in SeqsUpTo(ResponseLines, MaxLines) \ {<<>>}}

\* the text from the first character that is not in chars
RECURSIVE SkipAll(_, _)
SkipAll(s, chars) ==
    IF s # <<>> /\ Head(s) \in chars THEN SkipAll(Tail(s), chars) ELSE s

\* the text before the first character that is in chars
RECURSIVE UpTo(_, _)
UpTo(s, chars) ==
    IF s = <<>> \/ Head(s) \in chars
    THEN <<>>
    ELSE <<Head(s)>> \o UpTo(Tail(s), chars)

\* a result that may be None: no element for None, else the one value
NoMatch == <<>>
Match(group) == <<group>>

\* re.search(r"<label>\s*(.*)", response, re.IGNORECASE): the first place
\* where the label stands, \s* over all whitespace after it, newlines
\* included, and group 1 up to the next newline; None without a match
label_match(label, response) ==
    LET hits == {i \in 1 .. Len(response) : casefold(response[i]) = label}
    IN  IF hits = {}
        THEN NoMatch
        ELSE LET at == CHOOSE i \in hits : \A k \in hits : i <= k
             IN  Match(UpTo(SkipAll(SubSeq(response, at + 1, Len(response)),
                                    Whitespace),
                            {"\n"}))

\* New_Main.py lines 683-691: sentiment, topics, categories
parse_categorization(response) ==
    [l \in Labels |->
        IF label_match(l, response) = NoMatch
        THEN NA
        ELSE strip(label_match(l, response)[1])]

\* the categorization response is parsed
ParseCategorization ==
    /\ applied.fn = "none"
    /\ applied.kind = "categorization"
    /\ applied' = [applied EXCEPT
                      !.fn = "parse_categorization",
                      !.output = parse_categorization(applied.input)]

MaxSegments == 4

\* the two marker lines, each one character of the model
DotStart == "--- DOT START ---"
DotEnd == "--- DOT END ---"

\* "**Analysis for ", with "A" for the words, and ":**"
reflection_marker_generic == <<"*", "*", "A">>
MarkerEnd == <<":", "*", "*">>

\* the pieces an analysis response is written from: the heading up to the
\* name, the end of the heading, text, blank, and the two markers
Segments ==
    {reflection_marker_generic \o <<"n">>, MarkerEnd, <<"x">>, <<" ">>,
     <<DotStart>>, <<DotEnd>>}

AnalysisResponses ==
    {join(<<>>, segs) : segs \in SeqsUpTo(Segments, MaxSegments) \ {<<>>}}

\* the places where sub stands in s, counted from 0 as str.find counts
Occurrences(s, sub) ==
    {i \in 0 .. Len(s) - Len(sub) : SubSeq(s, i + 1, i + Len(sub)) = sub}

\* str.find(sub): the first place, or -1
find(s, sub) ==
    IF Occurrences(s, sub) = {}
    THEN -1
    ELSE CHOOSE i \in Occurrences(s, sub) : \A k \in Occurrences(s, sub) : i <= k

\* re.search(r"--- DOT START ---([\s\S]*?)--- DOT END ---", ...): group 1,
\* from the first start marker to the first end marker after it; None
\* without a match
dot_match(text) ==
    LET start == find(text, <<DotStart>>)
        rest == SubSeq(text, start + 2, Len(text))
    IN  IF start = -1 \/ find(rest, <<DotEnd>>) = -1
        THEN NoMatch
        ELSE Match(SubSeq(rest, 1, find(rest, <<DotEnd>>)))

\* New_Main.py lines 772-787: dot_code_for_db and
\* ai_analysis_output_for_user of a usable analysis response
extract_dot(analysis_response_text) ==
    LET analysis_output_candidate ==
            UpTo(analysis_response_text, {DotStart})
        marker_end_index == find(analysis_output_candidate, MarkerEnd) + 3
    IN  IF dot_match(analysis_response_text) = NoMatch
        THEN [dot_code |-> NoMatch, analysis |-> analysis_response_text]
        ELSE [dot_code |-> Match(strip(dot_match(analysis_response_text)[1])),
              analysis |->
                IF Occurrences(analysis_output_candidate,
                               reflection_marker_generic) # {}
                THEN strip(SubSeq(analysis_output_candidate,
                                  marker_end_index + 1,
                                  Len(analysis_output_candidate)))
                ELSE strip(analysis_output_candidate)]

\* the analysis response is taken apart
ExtractDot ==
    /\ applied.fn = "none"
    /\ applied.kind = "analysis"
    /\ applied' = [applied EXCEPT
                      !.fn = "extract_dot",
                      !.output = extract_dot(applied.input)]

TextInputs ==
    {Given("label", s) : s \in LabelStrings}
      \cup {Given("analysis", s) : s \in AnalysisResponses}
      \cup {Given("topics", s) : s \in TopicStrings}
      \cup {Given("categorization", s) : s \in CategorizationResponses}

TextInit ==
    /\ ConvInit
    /\ TokInitWith({TokenData(0, 0, 0, 0)})
    /\ SchedInitWith({UnparsablePrefs})
    /\ JournalInitWith({<<>>})
    /\ TempInit
    /\ applied \in TextInputs

TextNext ==
    /\ \/ Sanitize
       \/ MakeNodes
       \/ ParseCategorization
       \/ ExtractDot
    /\ UNCHANGED <<convVars, tokVars, schedVars, journalVars, tempVars>>

----------------------------------------------------------------------------
(* Table users: db_utils.add_user, lines 95-115                            *)

\* a row of table users (database_setup.py lines 51-58); None is NULL
UserRow(username, display_name, first_seen, last_interaction, prefs) ==
    [telegram_username |-> username, display_name |-> display_name,
     first_seen |-> first_seen, last_interaction |-> last_interaction,
     preferences |-> prefs]

\* COALESCE(a, b): the first argument that is not NULL
COALESCE(a, b) == IF a # None THEN a ELSE b

\* INSERT ... ON CONFLICT(user_id) DO UPDATE SET ...: the row of user_id
\* after the statement, from the row before it (NoMatch: no row)
add_user(row, telegram_username, display_name, current_ts) ==
    IF row = NoMatch
    THEN Match(UserRow(telegram_username, display_name, current_ts,
                       current_ts, None))
    ELSE Match([row[1] EXCEPT
                   !.telegram_username = telegram_username,
                   !.display_name =
                       COALESCE(display_name, row[1].display_name),
                   !.last_interaction = current_ts])

\* the rows a user may have before the call, and no row
UserRowsBefore ==
    {NoMatch}
      \cup {Match(UserRow(n, d, 0, l, p)) :
              n \in {None, "old_name"}, d \in {None, "", "Old"},
              l \in {0, 1}, p \in {None, "prefs"}}

AddUserCalls ==
    {Given("add_user",
           [row |-> r, telegram_username |-> n, display_name |-> d,
            current_ts |-> 2]) :
        r \in UserRowsBefore, n \in {None, "new_name"},
        d \in {None, "", "New"}}

\* add_user runs
AddUser ==
    /\ applied.fn = "none"
    /\ applied.kind = "add_user"
    /\ applied' = [applied EXCEPT
                      !.fn = "add_user",
                      !.output = add_user(applied.input.row,
                                          applied.input.telegram_username,
                                          applied.input.display_name,
                                          applied.input.current_ts)]

UsersInit ==
    /\ ConvInit
    /\ TokInitWith({TokenData(0, 0, 0, 0)})
    /\ SchedInitWith({UnparsablePrefs})
    /\ JournalInitWith({<<>>})
    /\ TempInit
    /\ applied \in AddUserCalls

UsersNext ==
    /\ AddUser
    /\ UNCHANGED <<convVars, tokVars, schedVars, journalVars, tempVars>>

----------------------------------------------------------------------------
(* Model calls and their token accounting: New_Main.py lines 154-224       *)

\* where the program calls the model; the first goes through
\* transcribe_audio_with_gemini, the others through generate_gemini_response
CallSites ==
    {"transcribe", "punctuate", "ocr", "chat", "categorization", "analysis"}

\* what generate_content_async gives: how the call ended, whether the
\* response carries usage_metadata, and its token counts
ModelResponses ==
    [outcome : GeminiOutcomes, usage : BOOLEAN, counts : TokenCounts]

\* lines 154-190: the text returned and the increment_token_usage calls made
generate_gemini_response(response) ==
    [text |-> response.outcome,
     increments |->
        IF response.outcome # "api_error" /\ response.usage
        THEN <<response.counts>>
        ELSE <<>>]

\* lines 206-224: the text returned; no line of it calls
\* increment_token_usage
transcribe_audio_with_gemini(response) ==
    [text |-> response.outcome, increments |-> <<>>]

\* save_token_data (lines 119-127): the file after the write, which may fail
save_token_data(file, data, written) == IF written THEN data ELSE file

\* one model call of a handler, with the increment it awaits before it
\* returns: the text, the increments, the token file and the session counter
\* afterwards
model_call(site, response, file, session, day, written) ==
    LET got == IF site = "transcribe"
               THEN transcribe_audio_with_gemini(response)
               ELSE generate_gemini_response(response)
        inc == IF got.increments = <<>>
               THEN 0
               ELSE got.increments[1][1] + got.increments[1][2]
    IN  IF got.increments = <<>>
        THEN [text |-> got.text, increments |-> <<>>, file |-> file,
              session |-> session]
        ELSE [text |-> got.text, increments |-> got.increments,
              file |-> save_token_data(
                          file,
                          increment_token_usage(file, session, day, inc),
                          written),
              session |-> session + inc]

ModelCallInputs ==
    {Given("model_call",
           [site |-> s, response |-> r, file |-> f, written |-> w]) :
        s \in CallSites, r \in ModelResponses, f \in TokenFilesAtStart,
        w \in BOOLEAN}

\* a handler calls the model once
ModelCall ==
    /\ applied.fn = "none"
    /\ applied.kind = "model_call"
    /\ applied' = [applied EXCEPT
                      !.fn = "model_call",
                      !.output = model_call(applied.input.site,
                                            applied.input.response,
                                            applied.input.file,
                                            token_data_cache, today,
                                            applied.input.written)]

CallsInit ==
    /\ ConvInit
    /\ TokInitWith({TokenData(0, 0, 0, 0)})
    /\ SchedInitWith({UnparsablePrefs})
    /\ JournalInitWith({<<>>})
    /\ TempInit
    /\ applied \in ModelCallInputs

CallsNext ==
    /\ ModelCall
    /\ UNCHANGED <<convVars, tokVars, schedVars, journalVars, tempVars>>

----------------------------------------------------------------------------
(* The historical context of the analysis prompt: New_Main.py lines        *)
(* 701-718                                                                 *)

MaxHistoryRows == 6

\* lines 705-716: the rows that get a line in history_context_parts, in the
\* order of the loop (oldest first); the row just added is skipped
history_context_parts(table, user, entry_id) ==
    LET ids == get_journal_entries_by_user(table, user, RecentLimit)
        reversed == [k \in 1 .. Len(ids) |-> ids[Len(ids) + 1 - k]]
    IN  SelectSeq(reversed, LAMBDA id : id # entry_id)

\* the rows a table may hold before the run: analysed rows of either user,
\* and a row whose categorization never got stored
EarlierRows ==
    {Entry(u, TRUE, TRUE, FALSE, 2) : u \in JournalUsers}
      \cup {Entry("u1", FALSE, TRUE, FALSE, 1)}

HistoryInputs ==
    {Given("history", [table |-> t, user |-> u]) :
        t \in SeqsUpTo(EarlierRows, MaxHistoryRows), u \in JournalUsers}

\* a run of handle_journal_logic saves its entry and builds the context;
\* escape_markdown(None) at line 716 raises TypeError and leaves no context
BuildHistory ==
    /\ applied.fn = "none"
    /\ applied.kind = "history"
    /\ LET table == add_journal_entry(applied.input.table, applied.input.user)
           entry_id == Len(table)
           raised == recent_history(table, applied.input.user, entry_id)
                       = "null_fields"
       IN  applied' = [applied EXCEPT
                          !.fn = "history_context",
                          !.output =
                             [table |-> table, entry_id |-> entry_id,
                              raised |-> raised,
                              context |->
                                 IF raised THEN <<>>
                                 ELSE history_context_parts(
                                        table, applied.input.user, entry_id)]]

HistoryInit ==
    /\ ConvInit
    /\ TokInitWith({TokenData(0, 0, 0, 0)})
    /\ SchedInitWith({UnparsablePrefs})
    /\ JournalInitWith({<<>>})
    /\ TempInit
    /\ applied \in HistoryInputs

HistoryNext ==
    /\ BuildHistory
    /\ UNCHANGED <<convVars, tokVars, schedVars, journalVars, tempVars>>

----------------------------------------------------------------------------
(* Display of a transcript or OCR text in chunks: New_Main.py lines        *)
(* 544-550 and 845-855                                                     *)

MaxTextLen == 4

\* the chunk length; 4000 in the source, small here so that a text of a
\* few characters has several chunks
max_len == 2

\* a character escape_markdown leaves alone, and one it escapes
TextChars == {"a", "."}

\* telegram.helpers.escape_markdown(text, version=2): a backslash before
\* every special character
RECURSIVE escape_markdown(_)
escape_markdown(text) ==
    IF text = <<>> THEN <<>>
    ELSE (IF Head(text) = "." THEN <<"\\", ".">> ELSE <<Head(text)>>)
           \o escape_markdown(Tail(text))

\* [s[i:i+max_len] for i in range(0, len(s), max_len)]
chunks(s) ==
    [k \in 1 .. (Len(s) + max_len - 1) \div max_len |->
        SubSeq(s, (k - 1) * max_len + 1,
               IF k * max_len <= Len(s) THEN k * max_len ELSE Len(s))]

\* how the sending of the chunks goes: all accepted (0), or the chunk of
\* that number rejected by Telegram
ChunkFailures == {"BadRequest", "TimedOut"}

\* the loop over the chunks: the bodies of the messages sent, in order.  A
\* rejected reply_text raises; the first except clause of the loop is
\* 'except telegram.error.BadRequest', and evaluating it raises NameError,
\* telegram being no name of the module, whatever was raised: neither the
\* plain-text reply nor "[Error display part n]" is sent, and the loop ends
send_chunks(text, rejected) ==
    LET all == chunks(escape_markdown(text))
    IN  IF rejected = 0 \/ rejected > Len(all)
        THEN [sent |-> all, raised |-> FALSE]
        ELSE [sent |-> SubSeq(all, 1, rejected - 1), raised |-> TRUE]

ChunkInputs ==
    {Given("chunks", [text |-> t, rejected |-> r, failure |-> f]) :
        t \in SeqsUpTo(TextChars, MaxTextLen) \ {<<>>},
        r \in 0 .. MaxTextLen, f \in ChunkFailures}

\* a transcript or an OCR text is shown
SendChunks ==
    /\ applied.fn = "none"
    /\ applied.kind = "chunks"
    /\ applied' = [applied EXCEPT
                      !.fn = "send_chunks",
                      !.output = send_chunks(applied.input.text,
                                             applied.input.rejected)]

ChunksInit ==
    /\ ConvInit
    /\ TokInitWith({TokenData(0, 0, 0, 0)})
    /\ SchedInitWith({UnparsablePrefs})
    /\ JournalInitWith({<<>>})
    /\ TempInit
    /\ applied \in ChunkInputs

ChunksNext ==
    /\ SendChunks
    /\ UNCHANGED <<convVars, tokVars, schedVars, journalVars, tempVars>>

----------------------------------------------------------------------------
(* utils.reverse_alphabet, lines 1-24, as handle_chatbot_logic applies it   *)

\* two more characters a string literal here is better without
DoubleQuote == "doublequote"
Backslash == "backslash"

\* the printable ASCII characters in code point order, from the space (32)
\* to the tilde (126)
PrintableAscii ==
    <<
      " ", "!", DoubleQuote, "#", "$", "%", "&", "'", "(", ")", "*", "+",
      ",", "-", ".", "/", "0", "1", "2", "3", "4", "5", "6", "7",
      "8", "9", ":", ";", "<", "=", ">", "?", "@", "A", "B", "C",
      "D", "E", "F", "G", "H", "I", "J", "K", "L", "M", "N", "O",
      "P", "Q", "R", "S", "T", "U", "V", "W", "X", "Y", "Z", "[",
      Backslash, "]", "^", "_", Backtick, "a", "b", "c", "d", "e", "f", "g",
      "h", "i", "j", "k", "l", "m", "n", "o", "p", "q", "r", "s",
      "t", "u", "v", "w", "x", "y", "z", "{", "|", "}", "~"
    >>

\* ord and chr of Python on these characters
ord(char) ==
    31 + (CHOOSE k \in 1 .. Len(PrintableAscii) : PrintableAscii[k] = char)

chr(code) == PrintableAscii[code - 31]

reverse_alphabet_lowercaseOnly(text) ==
    [k \in 1 .. Len(text) |->
        LET char == text[k]
        IN  IF ord("a") <= ord(char) /\ ord(char) <= ord("z")
            THEN chr(ord("a") + (ord("z") - ord(char)))
            ELSE char]

\* lines 11-24: character by character, a..z and A..Z are mirrored by code
\* point arithmetic, every other character is appended as it is
reverse_alphabet(text) ==
    [k \in 1 .. Len(text) |->
        LET char == text[k]
        IN  IF ord("a") <= ord(char) /\ ord(char) <= ord("z")
            THEN chr(ord("a") + (ord("z") - ord(char)))
            ELSE IF ord("A") <= ord(char) /\ ord(char) <= ord("Z")
            THEN chr(ord("A") + (ord("Z") - ord(char)))
            ELSE char]

MaxAnswerLen == 2

\* letters at the ends and in the middle of both ranges, and the characters
\* next to the ranges in code point order
AnswerChars ==
    {"a", "b", "m", "n", "y", "z", "A", "B", "M", "N", "Z",
     "@", "[", Backtick, "{", " ", "1"}

AnswerInputs ==
    {Given("answer", s) : s \in SeqsUpTo(AnswerChars, MaxAnswerLen)}

\* handle_chatbot_logic line 628: the answer of the model is reversed
ReverseAlphabet ==
    /\ applied.fn = "none"
    /\ applied.kind = "answer"
    /\ applied' = [applied EXCEPT
                      !.fn = "reverse_alphabet",
                      !.output = <<reverse_alphabet(applied.input)>>]

\* the reversed answer is reversed once more
ReverseAlphabetAgain ==
    /\ applied.fn = "reverse_alphabet"
    /\ applied.kind = "answer"
    /\ applied' = [applied EXCEPT
                      !.fn = "reverse_alphabet_twice",
                      !.output = @ \o <<reverse_alphabet(@[1])>>]

AnswersInit ==
    /\ ConvInit
    /\ TokInitWith({TokenData(0, 0, 0, 0)})
    /\ SchedInitWith({UnparsablePrefs})
    /\ JournalInitWith({<<>>})
    /\ TempInit
    /\ applied \in AnswerInputs

AnswersNext ==
    /\ \/ ReverseAlphabet
       \/ ReverseAlphabetAgain
    /\ UNCHANGED <<convVars, tokVars, schedVars, journalVars, tempVars>>

----------------------------------------------------------------------------
(* enable_prompts_command and disable_prompts_command beside the scheduler: *)
(* New_Main.py lines 364-397                                                *)

\* db_utils.get_user_preferences (called at line 373): the stored preferences
\* of the user as a mapping, None when there are none to read
get_user_preferences(stored) ==
    IF stored.parsable THEN Match(stored) ELSE NoMatch

\* what a command leaves: the result of update_user_preferences, the reply
\* and the stored preferences
CommandResult(ret, stored) ==
    [ret |-> ret,
     reply |-> CASE ret = "True" -> "done"
                 [] ret = "False" -> "issue"
                 [] OTHER -> "none",
     stored |-> stored]

\* lines 364-388: the current preferences with daily_prompt_enabled True,
\* last_prompt_sent_date None and a preferred time of 09:00 if none is set
\* are handed to update_user_preferences
enable_prompts_preferences(stored, conn) ==
    LET current_preferences == get_user_preferences(stored)
        copy == IF current_preferences = NoMatch
                THEN Prefs(TRUE, FALSE, "absent", {})
                ELSE current_preferences[1]
        new_prefs == [copy EXCEPT !.enabled = TRUE,
                                  !.last = {},
                                  !.time = IF @ = "absent" THEN "09:00" ELSE @]
        u == update_user_preferences(conn, stored, new_prefs)
    IN  CommandResult(u.ret, u.stored)

\* lines 390-397: daily_prompt_enabled False is handed to
\* update_user_preferences
disable_prompts_preferences(stored, conn) ==
    LET u == update_user_preferences(conn, stored, [enabled |-> FALSE])
    IN  CommandResult(u.ret, u.stored)

\* the users whose rows the running scan has fetched and not yet handled
PendingUsers ==
    IF sched.pc = "scan"
    THEN {sched.rows[i].user : i \in 1 .. Len(sched.rows)}
    ELSE {}

\* what is kept of a command: the user, whether the scan held a copy of the
\* user's preferences it had not yet handled, and which scan that was
Commanded(fn, u, r) ==
    [fn |-> fn, kind |-> "command", input |-> u,
     output |-> [ret |-> r.ret, reply |-> r.reply,
                 pending |-> u \in PendingUsers,
                 scan |-> <<sched.day, sched.idx>>]]

\* a user sends /enableprompts; it is handled while the scheduler sleeps or
\* awaits inside its loop
EnablePrompts ==
    \E u \in SchedUserSet, conn \in BOOLEAN :
        LET r == enable_prompts_preferences(preferences[u], conn)
        IN  /\ preferences' = [preferences EXCEPT ![u] = r.stored]
            /\ applied' = Commanded("enable_prompts_command", u, r)
            /\ UNCHANGED <<sched, prompts, convVars, tokVars, journalVars,
                           tempVars>>

\* a user sends /disableprompts
DisablePrompts ==
    \E u \in SchedUserSet, conn \in BOOLEAN :
        LET r == disable_prompts_preferences(preferences[u], conn)
        IN  /\ preferences' = [preferences EXCEPT ![u] = r.stored]
            /\ applied' = Commanded("disable_prompts_command", u, r)
            /\ UNCHANGED <<sched, prompts, convVars, tokVars, journalVars,
                           tempVars>>

\* users who have daily prompts enabled, or had them disabled
PrefsAtStart ==
    {Prefs(TRUE, TRUE, "09:00", {0}), Prefs(TRUE, TRUE, "absent", {}),
     Prefs(TRUE, FALSE, "09:00", {0})}

PrefsInit ==
    /\ ConvInit
    /\ TokInitWith({TokenData(0, 0, 0, 0)})
    /\ SchedInitWith(PrefsAtStart)
    /\ JournalInitWith({<<>>})
    /\ TempInit
    /\ applied = NoApplication

PrefsNext ==
    \/ ScanBegin
    \/ ScanRow
    \/ EnablePrompts
    \/ DisablePrompts

----------------------------------------------------------------------------
(* Specifications                                                          *)

Init ==
    /\ ConvInit
    /\ TokInitWith({TokenData(0, 0, 0, 0)})
    /\ SchedInitWith({UnparsablePrefs})
    /\ JournalInitWith({<<>>})
    /\ TempInit
    /\ applied = NoApplication
Next == ConvNext
Spec == Init /\ [][Next]_vars

TokInit ==
    /\ ConvInit
    /\ TokInitWith(TokenFilesAtStart)
    /\ SchedInitWith({UnparsablePrefs})
    /\ JournalInitWith({<<>>})
    /\ TempInit
    /\ applied = NoApplication
SpecTok == TokInit /\ [][TokNext]_vars
SpecTokSeq == TokInit /\ [][TokSeqNext]_vars

SchedInit ==
    /\ ConvInit
    /\ TokInitWith({TokenData(0, 0, 0, 0)})
    /\ SchedInitWith(PrefValues)
    /\ JournalInitWith({<<>>})
    /\ TempInit
    /\ applied = NoApplication
SpecSched == SchedInit /\ [][SchedNext]_vars

JournalInit ==
    /\ ConvInit
    /\ TokInitWith({TokenData(0, 0, 0, 0)})
    /\ SchedInitWith({UnparsablePrefs})
    /\ JournalInitWith({<<>>})
    /\ TempInit
    /\ applied = NoApplication
SpecJournal == JournalInit /\ [][JournalNext]_vars
SpecTemp == JournalInit /\ [][TempNext]_vars
SpecText == TextInit /\ [][TextNext]_vars
SpecPrefs == PrefsInit /\ [][PrefsNext]_vars
SpecAnswers == AnswersInit /\ [][AnswersNext]_vars
SpecChunks == ChunksInit /\ [][ChunksNext]_vars
SpecHistory == HistoryInit /\ [][HistoryNext]_vars
SpecCalls == CallsInit /\ [][CallsNext]_vars
SpecUsers == UsersInit /\ [][UsersNext]_vars

----------------------------------------------------------------------------
(* Properties of the mode state machine (checked under Spec)               *)

Handled == last.upd.kind # "none"
LastUser == last.key[2]
InPrivate == last.key[1] = "private"
ModeHandlerCalls(out) == SelectSeq(out, LAMBDA e : e[1] = "call")
SelectModePrompts ==
    {<<Ev("reply", "select_mode_first")>>, <<Ev("reply", "use_start_or_mode_to_begin")>>}

\* C1: content (text, voice or image) reaches a mode handler only when the
\* user has a current mode; with no current mode the only thing the program
\* does is reply with a prompt to select a mode: no model call, no journal
\* entry, no download.
C1_ContentNeedsActiveMode ==
    (InPrivate /\ last.upd.kind = "content") =>
        /\ (ModeHandlerCalls(last.out) # <<>> => last.mode \in Modes)
        /\ (last.mode = None =>
              /\ Replies(last.out) \in SelectModePrompts
              /\ SideEffects(last.out) = <<>>)

\* C2: a start command (/start, /mode, /changemode) is handled in every
\* conversation state, removes current_mode before it shows the mode
\* choices, and leaves the conversation in SELECTING_MODE with no current
\* mode.
C2_StartClearsMode ==
    (last.upd.kind = "command" /\ last.upd.arg \in StartCommands) =>
        /\ last.handler = "start_command"
        /\ last.out = <<Ev("user_data", "pop_current_mode"), Ev("reply", "choose_mode")>>
        /\ conversations[last.key] = SELECTING_MODE
        /\ user_data[LastUser] = None

C2_Witness ==
    /\ last.upd.kind = "command" /\ last.upd.arg = "changemode"
    /\ last.state = JOURNAL_MODE
    /\ last.mode = JOURNAL_MODE
    /\ user_data[LastUser] = None

\* C3: a mode choice made in SELECTING_MODE moves the conversation to the
\* chosen mode state, sets current_mode to it and replies with that mode's
\* instruction; a mode choice made in any other state changes neither the
\* conversation state nor current_mode.
C3_ModeChoiceOnlyWhenSelecting ==
    (last.upd.kind = "callback" /\ last.upd.arg \in Modes) =>
        IF last.state = SELECTING_MODE
        THEN /\ conversations[last.key] = last.upd.arg
             /\ user_data[LastUser] = last.upd.arg
             /\ Replies(last.out) = <<Ev("edit", ModeInstruction(last.upd.arg))>>
        ELSE /\ conversations[last.key] = last.state
             /\ user_data[LastUser] = last.mode

\* C4: /cancel in any conversation state, END included, removes
\* current_mode, acknowledges, then shows the mode choices and leaves the
\* conversation in SELECTING_MODE.
C4_CancelFromAnyState ==
    (InPrivate /\ last.upd = Cmd("cancel")) =>
        /\ Replies(last.out) =
             <<Ev("reply", "operation_cancelled"), Ev("reply", "choose_mode")>>
        /\ conversations[last.key] = SELECTING_MODE
        /\ user_data[LastUser] = None

\* C5: /end in any conversation state, END and SELECTING_MODE included,
\* removes current_mode, acknowledges and leaves the conversation in END;
\* content sent while no mode has been selected since reaches no mode
\* handler.
C5_EndFromAnyState ==
    /\ (InPrivate /\ last.upd = Cmd("end")) =>
          /\ Replies(last.out) = <<Ev("reply", "session_ended")>>
          /\ conversations[last.key] = END
          /\ user_data[LastUser] = None
    /\ (last.upd.kind = "content" /\ last.mode = None) =>
          ModeHandlerCalls(last.out) = <<>>

\* C6: text or voice sent in OCR_MODE is answered with "OCR mode requires an
\* image.", has no side effect, and leaves the conversation in OCR_MODE with
\* current_mode unchanged.
C6_OcrRejectsNonImage ==
    (InPrivate /\ last.upd.kind = "content" /\ last.upd.arg \in {"text", "voice"}
       /\ last.state = OCR_MODE) =>
        /\ Replies(last.out) = <<Ev("reply", "ocr_requires_image")>>
        /\ SideEffects(last.out) = <<>>
        /\ conversations[last.key] = OCR_MODE
        /\ user_data[LastUser] = last.mode

\* C7: help, setusername, tokens, feedback, enableprompts and disableprompts
\* are handled and answered in every conversation state and change neither
\* the conversation state nor current_mode.
C7_GlobalCommandsKeepState ==
    (last.upd.kind = "command" /\ last.upd.arg \in GlobalCommands) =>
        /\ last.handler = "global_command"
        /\ Replies(last.out) # <<>>
        /\ conversations[last.key] = last.state
        /\ user_data[LastUser] = last.mode

C7_Witness ==
    /\ last.upd = Cmd("feedback")
    /\ last.state = JOURNAL_MODE
    /\ last.mode = JOURNAL_MODE
    /\ Replies(last.out) = <<Ev("reply", "feedback_thanks")>>
    /\ conversations[last.key] = JOURNAL_MODE

\* C8: every update the user sends, command or content, in any conversation
\* state, is answered with at least one reply.
C8_EveryUpdateAnswered ==
    (InPrivate /\ Handled /\ last.upd.kind \in {"command", "content"}) =>
        Replies(last.out) # <<>>

----------------------------------------------------------------------------
(* Properties of the token usage counter                                   *)

RECURSIVE SumSeq(_)
SumSeq(q) == IF q = <<>> THEN 0 ELSE q[1][2] + SumSeq(Tail(q))

\* the sum of the increments reported so far
Reported == SumSeq(hist.incs)
AllOnToday == \A i \in 1 .. Len(hist.incs) : hist.incs[i][1] = today

----------------------------------------------------------------------------
(* Properties of the daily prompt scheduler (checked under SpecSched)      *)

\* the preferred time of day the specification gives a user: the stored one,
\* 09:00 when it is absent or malformed
StatedPromptTime(p) == IF p.time = "18:00" THEN 1080 ELSE 540

\* a prompt is due: enabled, the preferred time reached, none sent today
Due(p, now_time, day) ==
    /\ p.parsable
    /\ p.enabled
    /\ now_time >= StatedPromptTime(p)
    /\ p.last # {day}

\* C11: a user with daily prompts enabled and preferred time 09:00 gets at
\* most one prompt on any day; and when a scan sends the prompt to such a
\* user whose last_prompt_sent_date was yesterday, the stored
\* last_prompt_sent_date becomes today.
C11_OnePromptPerDay ==
    /\ \A u \in SchedUserSet :
         (preferences[u].parsable /\ preferences[u].enabled
            /\ preferences[u].time = "09:00") =>
             \A d \in 1 .. MaxSchedDay : prompts.count[u][d] <= 1
    /\ (prompts.step.sent /\ prompts.step.p.time = "09:00"
          /\ prompts.step.p.last = {prompts.step.today_str - 1}) =>
            preferences[prompts.step.user].last = {prompts.step.today_str}

\* C12: a scan sends a prompt to a user only if, at scan time, the user's
\* preferences enable daily prompts, the time of day is at or past the
\* preferred time (09:00 when absent or malformed) and last_prompt_sent_date
\* is not today; and the stored last_prompt_sent_date changes only to today
\* and only when the prompt was sent.
C12_PromptOnlyWhenDue ==
    prompts.step.user # "none" =>
        /\ (prompts.step.sent =>
              Due(prompts.step.p, prompts.step.now_time, prompts.step.today_str))
        /\ (preferences[prompts.step.user].last # prompts.step.before.last =>
              /\ prompts.step.sent
              /\ preferences[prompts.step.user].last = {prompts.step.today_str})

C12_Witness ==
    /\ prompts.step.sent
    /\ prompts.step.p.time = "9am"
    /\ prompts.step.now_time = 540
    /\ prompts.step.p.last = {0}

----------------------------------------------------------------------------
(* The journal pipeline                                                    *)

Events(out) == {out[i] : i \in 1 .. Len(out)}
EventKinds(out) == {out[i][1] : i \in 1 .. Len(out)}
JournalRan == run.user # None
DbUpdates ==
    {Ev("db", "update_categorization"), Ev("db", "update_analysis_and_dot"),
     Ev("db", "update_analysis"), Ev("db", "update_analysis_failed")}

\* C14: when add_journal_entry fails, the user is told that saving failed
\* and nothing else happens: no model call, no update of any row, no
\* rendering, no acknowledgment; the table is as it was.
C14_SaveFailureStopsPipeline ==
    (JournalRan /\ ~run.env.entry) =>
        /\ Ev("edit", "error_saving_entry") \in Events(run.out)
        /\ EventKinds(run.out) \cap {"gemini", "render", "photo", "raise"} = {}
        /\ Events(run.out) \cap DbUpdates = {}
        /\ Ev("reply", "fully_processed") \notin Events(run.out)
        /\ journal_entries = run.before
C14_Witness ==
    /\ JournalRan /\ ~run.env.entry
    /\ Len(journal_entries) = 1
    /\ Ev("edit", "error_saving_entry") \in Events(run.out)

Persisted == JournalRan /\ run.env.entry
StepOf(event) ==
    CHOOSE i \in 1 .. Len(run.out) : run.out[i] = event
CategorizationFailed == run.env.cat \in {"tagged", "stopped", "none"}

\* C15: when the categorization response is a tagged error, a blocked
\* response or no response, the pipeline does not parse it and writes no
\* sentiment, topics or categories to the row, warns the user, leaves the
\* saved row as it is, and goes on to the analysis call.
C15_CategorizationFailureGoesOn ==
    (Persisted /\ CategorizationFailed) =>
        /\ Ev("db", "update_categorization") \notin Events(run.out)
        /\ Ev("reply", "categorization_warning") \in Events(run.out)
        /\ Len(journal_entries) = Len(run.before) + 1
        /\ ~journal_entries[run.entry_id].sentiment
        /\ Ev("gemini", "analysis") \in Events(run.out)
        /\ StepOf(Ev("reply", "categorization_warning"))
             < StepOf(Ev("gemini", "analysis"))

AnalysisCalled == Ev("gemini", "analysis") \in Events(run.out)

DiagramOutcomes ==
    {Ev("photo", "mind_map"), Ev("edit", "error_sending_mind_map"),
     Ev("edit", "mind_map_not_generated"), Ev("reply", "no_mind_map")}
DiagramOutcomeSteps ==
    {i \in 1 .. Len(run.out) : run.out[i] \in DiagramOutcomes}

\* C17: every run that saved its entry ends with exactly one mind map
\* outcome and then the acknowledgment that the entry is fully processed: the
\* image sent and its file removed, the file removed too when sending failed,
\* the user told when rendering failed, the user told when there was no
\* diagram description.
C17_RunEndsWithDiagramOutcomeAndAck ==
    Persisted =>
        /\ run.out[Len(run.out)] = Ev("reply", "fully_processed")
        /\ Cardinality(DiagramOutcomeSteps) = 1
        /\ \A i \in DiagramOutcomeSteps :
             /\ (run.env.ana = "dot" /\ run.env.render /\ run.env.send)
                  <=> run.out[i] = Ev("photo", "mind_map")
             /\ (run.env.ana = "dot" /\ run.env.render /\ ~run.env.send)
                  <=> run.out[i] = Ev("edit", "error_sending_mind_map")
             /\ (run.env.ana = "dot" /\ ~run.env.render)
                  <=> run.out[i] = Ev("edit", "mind_map_not_generated")
             /\ (run.env.ana = "dot" /\ run.env.render)
                  <=> \E k \in i + 1 .. Len(run.out) :
                         run.out[k] = Ev("file", "remove_png")

\* the table as it is after the first n effects of the run
TableAt(n) ==
    ApplyDb(run.before, run.user, run.entry_id, SubSeq(run.out, 1, n))
Retrievable(table, user, entry_id) ==
    LET ids == get_journal_entries_by_user(table, user, RecentLimit)
    IN  \E i \in 1 .. Len(ids) : ids[i] = entry_id

\* C18: the row of a journal entry is inserted, with every analysis column
\* NULL, before the first model call of the pipeline; from the insert on,
\* after every later step of the run and whether or not the run raises, the
\* row is in the table and among the user's rows that
\* get_journal_entries_by_user returns; no run removes a row that was there
\* before it.
C18_EntrySavedFirstAndKept ==
    /\ Persisted =>
         LET added == StepOf(Ev("db", "add_journal_entry"))
         IN  /\ \A i \in 1 .. Len(run.out) : run.out[i][1] = "gemini" => added < i
             /\ TableAt(added)[run.entry_id]
                  = Entry(run.user, FALSE, FALSE, FALSE, 0)
             /\ \A n \in added .. Len(run.out) :
                  /\ run.entry_id \in DOMAIN TableAt(n)
                  /\ TableAt(n)[run.entry_id].user = run.user
                  /\ Retrievable(TableAt(n), run.user, run.entry_id)
             /\ journal_entries = TableAt(Len(run.out))
    /\ Len(journal_entries) >= Len(run.before)
    /\ \A i \in 1 .. Len(run.before) : journal_entries[i] = run.before[i]
C18_Witness ==
    /\ Persisted /\ run.raised
    /\ Len(run.before) = 1
    /\ Retrievable(journal_entries, run.user, run.entry_id)
    /\ ~journal_entries[run.entry_id].ai_analysis_text

CategorizationUpdateSteps ==
    {i \in 1 .. Len(run.out) : run.out[i] = Ev("db", "update_categorization")}
AnalysisUpdateSteps ==
    {i \in 1 .. Len(run.out) :
        run.out[i] \in DbUpdates \ {Ev("db", "update_categorization")}}

\* C19, as first stated: update_journal_entry_analysis is called at most
\* once for every row of journal_entries.
C19_AtMostOneUpdatePerEntry ==
    \A i \in DOMAIN journal_entries : journal_entries[i].updates <= 1

\* C19: update_journal_entry_analysis is called at most twice for every row,
\* at most once with sentiment, topics and categories and at most once with
\* the analysis text and the diagram description, so that each analysis
\* column is written by at most one call.
C19_AtMostOneUpdatePerFieldGroup ==
    /\ \A i \in DOMAIN journal_entries : journal_entries[i].updates <= 2
    /\ Persisted =>
         /\ Cardinality(CategorizationUpdateSteps) <= 1
         /\ Cardinality(AnalysisUpdateSteps) <= 1
         /\ journal_entries[run.entry_id].updates
              = Cardinality(CategorizationUpdateSteps)
                + Cardinality(AnalysisUpdateSteps)
         /\ \A i \in CategorizationUpdateSteps, k \in AnalysisUpdateSteps : i < k
C19_Witness ==
    /\ Persisted
    /\ journal_entries[run.entry_id].updates = 2
    /\ journal_entries[run.entry_id].sentiment
    /\ journal_entries[run.entry_id].dot_code

----------------------------------------------------------------------------
(* Input normalisation                                                     *)

GetTextReturned ==
    Handled /\ Ev("return", "get_text_from_input") \in Events(last.out)
\* what get_text_from_input did up to its return
GetTextOut ==
    SubSeq(last.out, 1,
           CHOOSE i \in 1 .. Len(last.out) :
               last.out[i] = Ev("return", "get_text_from_input"))

VoiceTranscriptionFailed ==
    /\ GetTextReturned
    /\ last.upd.arg = "voice"
    /\ last.norm.path \in {"fail", "empty"}

\* C21: when the transcription of a voice message is empty or an error
\* result, get_text_from_input fails with a message that the user is sent:
\* the enhancement step is not entered, no transcript is displayed and no
\* mode handler is called.
C21_FailedTranscriptionStopsInput ==
    VoiceTranscriptionFailed =>
        /\ Ev("reply", "error_message") \in Events(last.out)
        /\ Ev("edit", "status_enhancing") \notin Events(last.out)
        /\ Ev("gemini", "punctuate") \notin Events(last.out)
        /\ Ev("reply", "transcript_header") \notin Events(last.out)
        /\ Ev("reply", "transcript_chunk") \notin Events(last.out)
        /\ ModeHandlerCalls(last.out) = <<>>

----------------------------------------------------------------------------
(* The mode selection reply                                                *)

FormattingRejected ==
    /\ Handled /\ last.handler = "mode_button_callback"
    /\ last.upd.arg \in Modes
    /\ Ev("rejected", "edit_message_text") \in Events(last.out)

\* C22: when Telegram rejects the formatted reply to a valid mode choice,
\* the same content is sent as plain text and the choice takes effect as it
\* does when the reply is accepted: the conversation is in the chosen mode's
\* state and current_mode is the choice.
C22_PlainTextFallbackKeepsChoice ==
    FormattingRejected =>
        /\ ~last.raised
        /\ Ev("edit", "mode_set_plain_text") \in Events(last.out)
        /\ conversations[last.key] = last.upd.arg
        /\ user_data[LastUser] = last.upd.arg

----------------------------------------------------------------------------
(* Tagged model results                                                    *)

ChatAnswered ==
    /\ Handled /\ last.handler = "handle_input"
    /\ Ev("call", "handle_chatbot_logic") \in Events(last.out)
TaggedResults == {"blocked", "api_error", "empty"}

\* C23: a model result that is blocked, an API error or empty is never
\* taken for usable text: the chat handler does not show it as an answer,
\* and an OCR result of that kind is not handed on to a mode handler.
C23_TaggedResultNeverUsable ==
    /\ (ChatAnswered /\ last.gem \in TaggedResults) =>
           Ev("edit", "chat_answer_reverse_alphabet") \notin Events(last.out)
    /\ (GetTextReturned /\ last.upd.arg = "photo" /\ last.norm.path = "fail") =>
           ModeHandlerCalls(last.out) = <<>>

----------------------------------------------------------------------------
(* Order of the pipeline steps                                             *)

\* the steps of the pipeline in the order of section 4.3; an effect that
\* belongs to no step (a status edit, a warning, the apology) has no number
PipelineSteps ==
    <<{Ev("db", "add_journal_entry")},
      {Ev("gemini", "categorization")},
      {Ev("db", "update_categorization")},
      {Ev("db", "get_recent_entries")},
      {Ev("gemini", "analysis")},
      DbUpdates \ {Ev("db", "update_categorization")},
      {Ev("edit", "analysis_before_dot"), Ev("edit", "analysis_whole_response"),
       Ev("edit", "analysis_blocked_or_error"), Ev("edit", "analysis_not_generated")},
      DiagramOutcomes \cup {Ev("reply", "status_generating_mind_map"),
                            Ev("render", "mind_map"), Ev("delete", "map_status"),
                            Ev("file", "remove_png")},
      {Ev("reply", "fully_processed")}>>
IsPipelineStep(e) == \E s \in 1 .. Len(PipelineSteps) : e \in PipelineSteps[s]
StepNumber(e) == CHOOSE s \in 1 .. Len(PipelineSteps) : e \in PipelineSteps[s]
\* the steps a run made, in the order it made them
StepsMade == SelectSeq(run.out, IsPipelineStep)
StepsMadeSet == {StepNumber(StepsMade[i]) : i \in 1 .. Len(StepsMade)}
\* the steps that every run reaching a later step goes through: all but the
\* two conditional updates
Unconditional(s) ==
    PipelineSteps[s] \cap DbUpdates = {}

\* C24: the steps of one journal run are made in the order persist entry,
\* categorization call, persist categorization, fetch history, analysis
\* call, persist analysis, display analysis, mind map, acknowledgment; none
\* is made twice or out of order, and a step is made only after every
\* unconditional step before it was made.
C24_PipelineStepsInOrder ==
    JournalRan =>
        /\ \A i, k \in 1 .. Len(StepsMade) :
             i < k =>
                \/ StepNumber(StepsMade[i]) < StepNumber(StepsMade[k])
                \/ /\ StepNumber(StepsMade[i]) = StepNumber(StepsMade[k])
                   /\ StepsMade[i] \in PipelineSteps[Len(PipelineSteps) - 1]
                   /\ StepsMade[i] # StepsMade[k]
        /\ \A s \in StepsMadeSet :
             \A t \in 1 .. s - 1 : Unconditional(t) => t \in StepsMadeSet
C24_Witness ==
    /\ JournalRan
    /\ StepsMadeSet = 1 .. Len(PipelineSteps)
    /\ Ev("photo", "mind_map") \in Events(run.out)

----------------------------------------------------------------------------
(* Temporary file paths                                                    *)

HoldsFile(t) == norm_task[t].pc \in {"process", "cleanup"}

----------------------------------------------------------------------------
(* Label sanitization                                                      *)

LabelMade == applied.fn \in LabelFns

IsString(s, chars) ==
    /\ DOMAIN s = 1 .. Len(s)
    /\ \A i \in 1 .. Len(s) : s[i] \in chars

Idempotent ==
    Sanitized(applied.fn, applied.output) = applied.output

\* C26: label sanitization is total (every string has a sanitized string)
\* and idempotent (sanitizing a sanitized string changes nothing).
C26_SanitizationTotalAndIdempotent ==
    LabelMade =>
        /\ IsString(applied.output, LabelChars)
        /\ Idempotent

\* C26, amended: label sanitization is total, and sanitizing a sanitized
\* string changes nothing exactly when the sanitized string has no double
\* quote and neither begins nor ends with whitespace.
C26_SanitizationTotalAndIdempotentOnCleanResults ==
    LabelMade =>
        /\ IsString(applied.output, LabelChars)
        /\ Idempotent <=>
             /\ \A i \in 1 .. Len(applied.output) : applied.output[i] # "\""
             /\ strip(applied.output) = applied.output

C26_Witness ==
    /\ LabelMade
    /\ applied.input = <<" ", "a", "-">>
    /\ applied.output = <<"a", "_">>
    /\ Idempotent

Count(s, c) == Cardinality({i \in 1 .. Len(s) : s[i] = c})

\* C27: the text of a label is the topic or category stripped, with spaces
\* and hyphens made underscores, single quotes and backticks removed and
\* each double quote kept and escaped as backslash-quote: it holds no space,
\* hyphen, single quote, backtick or unescaped double quote.
C27_LabelEscapesDoubleQuotes ==
    LabelMade =>
        /\ \A i \in 1 .. Len(applied.output) :
             /\ applied.output[i] \notin {" ", "-", "'", Backtick}
             /\ applied.output[i] = "\"" =>
                  (i > 1 /\ applied.output[i - 1] = "\\")
        /\ Count(applied.output, "\"") = Count(applied.input, "\"")

----------------------------------------------------------------------------
(* Nodes of the topics and categories                                      *)

NodesMade == applied.fn \in NodeFns

\* C28: of the comma-separated items of a topics or categories string, an
\* item that is empty or "N/A" once trimmed gives no node, and every other
\* item gives exactly one node.
C28_OneNodePerNamedItem ==
    NodesMade =>
        LET items == split(applied.input, ",")
        IN  \A k \in 1 .. Len(items) :
                Cardinality({n \in 1 .. Len(applied.output) :
                                applied.output[n].i = k - 1})
                  = IF strip(items[k]) \in {<<>>, NA} THEN 0 ELSE 1

----------------------------------------------------------------------------
(* Parsing of the categorization response                                  *)

CategorizationParsed == applied.fn = "parse_categorization"

\* the lines of the response that begin with the label, in either spelling
LinesOf(label, response) ==
    LET lines == split(response, "\n")
    IN  {k \in 1 .. Len(lines) :
            lines[k] # <<>> /\ casefold(lines[k][1]) = label}

\* C29: for each of the labels Sentiment, Topics and Categories, parsing
\* gives the trimmed rest of the line that follows the label and its colon,
\* whatever the case of the label, and "N/A" when the response has no line
\* for the label.
C29_FieldIsTrimmedRestOfItsLine ==
    CategorizationParsed =>
        \A l \in Labels :
            LET lines == split(applied.input, "\n")
                own == LinesOf(l, applied.input)
            IN  applied.output[l] =
                    IF own = {}
                    THEN NA
                    ELSE strip(Tail(lines[CHOOSE k \in own :
                                             \A m \in own : k <= m]))

----------------------------------------------------------------------------
(* Extraction of the diagram description                                   *)

DotExtracted == applied.fn = "extract_dot"

Has(s, c) == \E i \in 1 .. Len(s) : s[i] = c

\* the text without its heading "**Analysis for NAME:**", when it begins
\* with one
WithoutPreamble(s) ==
    IF /\ find(strip(s), reflection_marker_generic) = 0
       /\ find(strip(s), MarkerEnd) # -1
    THEN SubSeq(strip(s), find(strip(s), MarkerEnd) + 4, Len(strip(s)))
    ELSE s

\* C30: when the response has both markers, the diagram description is the
\* trimmed text between them and the analysis is the text before the start
\* marker without its leading heading, with no marker in it; when it has no
\* marker, the analysis is the whole response and there is no diagram
\* description.
C30_DiagramBetweenMarkersAnalysisBefore ==
    DotExtracted =>
        LET text == applied.input
            before == UpTo(text, {DotStart})
            after == SubSeq(text, Len(before) + 2, Len(text))
        IN  /\ (Has(text, DotStart) /\ Has(text, DotEnd)) =>
                /\ applied.output.dot_code
                     = Match(strip(UpTo(after, {DotEnd})))
                /\ applied.output.analysis = strip(WithoutPreamble(before))
                /\ ~ Has(applied.output.analysis, DotStart)
                /\ ~ Has(applied.output.analysis, DotEnd)
            /\ (~ Has(text, DotStart) /\ ~ Has(text, DotEnd)) =>
                /\ applied.output.dot_code = NoMatch
                /\ applied.output.analysis = text
----------------------------------------------------------------------------
(* Table users                                                             *)

UserAdded == applied.fn = "add_user"

\* C31: add_user inserts the user when there is no row; for an existing row
\* it sets the username and the last-interaction time, replaces the display
\* name only when a non-empty new one is given (none, or an empty one, keeps
\* the old display name), and leaves first-seen and the preferences as they
\* were.
C31_UpsertKeepsDisplayNameUnlessNonEmpty ==
    UserAdded =>
        LET in == applied.input
            new == applied.output[1]
        IN  IF in.row = NoMatch
            THEN new = UserRow(in.telegram_username, in.display_name,
                               in.current_ts, in.current_ts, None)
            ELSE /\ new.telegram_username = in.telegram_username
                 /\ new.last_interaction = in.current_ts
                 /\ new.display_name =
                        IF in.display_name \notin {None, ""}
                        THEN in.display_name
                        ELSE in.row[1].display_name
                 /\ new.first_seen = in.row[1].first_seen
                 /\ new.preferences = in.row[1].preferences
----------------------------------------------------------------------------
(* Token accounting of model calls                                         *)

ModelCalled == applied.fn = "model_call"

CallSucceeded == ModelCalled /\ applied.output.text = "text"

\* C32: a successful model call, at any of the call sites, is followed by
\* exactly one increment of the token counter by the call's token counts,
\* and the incremented total is in the token file when the call returns.
C32_SuccessfulCallCountedOnceAndSaved ==
    CallSucceeded =>
        LET counts == applied.input.response.counts
        IN  /\ applied.output.increments = <<counts>>
            /\ applied.output.file.total
                 = applied.input.file.total + counts[1] + counts[2]
----------------------------------------------------------------------------
(* Historical context                                                      *)

HistoryBuilt == applied.fn = "history_context"

\* the rows of the user, by id
RowsOf(table, user) == {i \in 1 .. Len(table) : table[i].user = user}

\* the n newest rows of the user
NewestOf(table, user, n) ==
    {i \in RowsOf(table, user) :
        Cardinality({k \in RowsOf(table, user) : k > i}) < n}

\* C33: the historical context never holds the entry just created, holds
\* only entries of the same user, and holds at most 5 entries, all of them
\* among the user's most recent ones.
C33_HistoryIsOwnRecentEarlierEntries ==
    HistoryBuilt =>
        LET o == applied.output
        IN  /\ \A k \in 1 .. Len(o.context) :
                 /\ o.context[k] # o.entry_id
                 /\ o.table[o.context[k]].user = applied.input.user
                 /\ o.context[k]
                      \in NewestOf(o.table, applied.input.user, RecentLimit)
            /\ Len(o.context) <= RecentLimit
            /\ \A k, m \in 1 .. Len(o.context) :
                 k # m => o.context[k] # o.context[m]

C33_Witness ==
    /\ HistoryBuilt
    /\ Len(applied.output.context) = RecentLimit - 1
    /\ Cardinality(RowsOf(applied.output.table, applied.input.user))
         > RecentLimit
    /\ RowsOf(applied.output.table, "u2") # {}
    /\ RowsOf(applied.output.table, "u1") # {}
----------------------------------------------------------------------------
(* Chunks of a transcript or OCR text                                      *)

ChunksSent == applied.fn = "send_chunks"

RECURSIVE Concat(_)
Concat(seqs) == IF seqs = <<>> THEN <<>> ELSE Head(seqs) \o Concat(Tail(seqs))

\* C34: the text is sent as chunks of at most max_len characters each, in
\* order, which together are the whole text, nothing dropped and nothing
\* twice, also when the sending of a chunk is rejected.
C34_ChunksCoverTheText ==
    ChunksSent =>
        /\ \A k \in 1 .. Len(applied.output.sent) :
             Len(applied.output.sent[k]) <= max_len
        /\ Concat(applied.output.sent) = escape_markdown(applied.input.text)
----------------------------------------------------------------------------
(* Reset of the daily count                                                *)

\* task t writes the file in this step
Saves(t) == task[t].pc = "saving" /\ task'[t].pc = "idle"

----------------------------------------------------------------------------
(* reverse_alphabet                                                        *)

LowercaseLetters ==
    <<"a", "b", "c", "d", "e", "f", "g", "h", "i", "j", "k", "l", "m",
      "n", "o", "p", "q", "r", "s", "t", "u", "v", "w", "x", "y", "z">>

UppercaseLetters ==
    <<"A", "B", "C", "D", "E", "F", "G", "H", "I", "J", "K", "L", "M",
      "N", "O", "P", "Q", "R", "S", "T", "U", "V", "W", "X", "Y", "Z">>

Range(s) == {s[k] : k \in DOMAIN s}

\* the letter as far from the end of the alphabet as c is from its start
MirrorIn(letters, c) ==
    LET k == CHOOSE j \in DOMAIN letters : letters[j] = c
    IN  letters[Len(letters) + 1 - k]

Mirror(c) ==
    IF c \in Range(LowercaseLetters) THEN MirrorIn(LowercaseLetters, c)
    ELSE IF c \in Range(UppercaseLetters) THEN MirrorIn(UppercaseLetters, c)
    ELSE c

AnswerReversed == applied.kind = "answer" /\ applied.fn # "none"

\* C36: reverse_alphabet maps each letter of a..z and of A..Z to its mirror
\* in the same range, leaves every other character and the length as they
\* are, and applied twice gives the original string back.
C36_ReverseAlphabetMirrorsAndIsInvolution ==
    /\ AnswerReversed =>
         /\ Len(applied.output[1]) = Len(applied.input)
         /\ \A k \in DOMAIN applied.input :
              applied.output[1][k] = Mirror(applied.input[k])
    /\ (applied.kind = "answer" /\ applied.fn = "reverse_alphabet_twice") =>
         applied.output[2] = applied.input
    /\ Mirror("a") = "z" /\ Mirror("b") = "y" /\ Mirror("A") = "Z"

C36_Witness ==
    /\ applied.kind = "answer"
    /\ applied.fn = "reverse_alphabet_twice"
    /\ applied.input = <<"b", "Z">>
    /\ applied.output = <<(<<"y", "A">>), (<<"b", "Z">>)>>
----------------------------------------------------------------------------
(* current_mode and the conversation state                                 *)

\* C37: for every user, in every reachable state, current_mode agrees with
\* the conversation state: in a mode state current_mode is that mode, in
\* SELECTING_MODE and END it is absent; after every handler outcome, an
\* invalid mode choice and an error while replying to a mode choice included.
C37_ModeAgreesWithConversation ==
    \A key \in DOMAIN conversations :
        key[1] = "private" =>
            /\ conversations[key] \in Modes =>
                 user_data[key[2]] = conversations[key]
            /\ conversations[key] \in {SELECTING_MODE, END} =>
                 user_data[key[2]] = None
----------------------------------------------------------------------------
(* The scheduler beside the /enableprompts and /disableprompts commands     *)

\* the user's /disableprompts was handled while the running scan held its
\* copy of the user's preferences, and the scan has since handled the user
\* and made its call of update_user_preferences
DisabledDuringScan(u) ==
    /\ applied.fn = "disable_prompts_command"
    /\ applied.input = u
    /\ applied.output.pending
    /\ applied.output.scan = <<sched.day, sched.idx>>
    /\ prompts.step.user = u
    /\ prompts.step.updated
    /\ u \notin PendingUsers

\* C38: when a user's /disableprompts is handled between the scan's reading
\* of the user's preferences and its write of last_prompt_sent_date, the
\* stored daily_prompt_enabled is false after the scan's write.
C38_DisableSurvivesScanWrite ==
    \A u \in SchedUserSet :
        DisabledDuringScan(u) => ~preferences[u].enabled

\* C39: whatever scans, /enableprompts and /disableprompts commands happen
\* in whatever order, with whatever failures, no user gets more than one
\* daily prompt on one day.
C39_AtMostOnePromptPerUserAndDay ==
    \A u \in SchedUserSet, d \in 1 .. MaxSchedDay : prompts.count[u][d] <= 1
----------------------------------------------------------------------------
(* The session counter and the file                                        *)

NoIncrementInProgress == \A t \in Tasks : task[t].kind # "inc"

====
